---- MODULE Spec2Model ----
(***************************************************************************)
(* Model of the golang-index distributed indexer: the Postgres work queue  *)
(* (internal/db), i.e. the lease rows repo_indexing and repos, the tag     *)
(* table repo_tags, and the operations NextReindexAllReposWork,            *)
(* NextReindexRepoTagsWork, StoreRepos, StoreRepoTags and FetchRepoTags;   *)
(* the Backoff (internal/backoff.go); the goroutines of main; the forge    *)
(* client (internal/github) and the feed handler.                          *)
(*                                                                         *)
(* Time is counted in ticks, TicksPerSecond ticks to the second, so that   *)
(* durations and timestamps that are not whole seconds exist in the model. *)
(* Times are UTC. Every SQL statement is one atomic step; SpecTx follows   *)
(* the statements of concurrent StoreRepoTags transactions one by one,     *)
(* under READ COMMITTED, the other specifications take a StoreRepoTags     *)
(* call as one step.                                                       *)
(*                                                                         *)
(* Specifications:                                                         *)
(*   Spec          the repo tags queue on a freshly migrated database      *)
(*   SpecAllRepos  the all-repos lease, from any row and flags             *)
(*   SpecStalled   both queues when no holder ever stores a result, with   *)
(*                 time unbounded and the workers polling for ever         *)
(*   SpecStore     StoreRepoTags, once and repeated, on stored tables      *)
(*   SpecTx        two connections storing tags while a third one reads    *)
(*   SpecLoops     the all-repos loop, the tag workers and the errgroup    *)
(*   SpecLoopsFair the same, every task being scheduled                    *)
(*   SpecBackoff   Pause on a Backoff of any configuration                 *)
(*   SpecWorkers   the tag workers on a forge that answers, with time      *)
(*                 unbounded                                               *)
(*   SpecLoopsPrompt  SpecLoops where every step but the end of a wait is  *)
(*                 taken when it can be                                    *)
(*   SpecForge     the forge client listing repos and crawling tags        *)
(*   SpecFeed      the feed handler and FetchRepoTags on stored tags       *)
(*   SpecIdle      tag workers that find no work and wait                  *)
(*   SpecTables    the repo tags queue, with the rows of repo_tags         *)
(*   SpecStale     two workers and one repo, while the clock runs          *)
(*   SpecRetry     the all-repos loop on a forge that fails every crawl    *)
(*   SpecURLNames  the tag workers on repos whose id is not org/name       *)
(***************************************************************************)
EXTENDS Integers, Sequences, FiniteSets, TLC

\* ------------------------------------------------------------------ bounds

\* Clock ticks per second: the resolution of the model's clock.
TicksPerSecond == 3

\* The clock runs from 0 to MaxTime ticks.
MaxTime == 4

\* Flag values (ttl, period) are drawn from 0..MaxDuration ticks.
MaxDuration == 3

\* StoreRepoTags is given at most MaxRepoTags repo tags in one call.
MaxRepoTags == 2

\* RepoTag.Created is at most MaxCreated ticks.
MaxCreated == 1

Durations == 0..MaxDuration

Times == 0..MaxTime

\* ------------------------------------------------------------- the tables

\* TIMESTAMP '-infinity': earlier than every time of the clock.
NegInf == -1

OrgRepoNames == {"foo/bar", "gaz/urk"}

TagNames == {"v0.0.1", "v0.0.2", "v0.0.3"}

ModulePaths == {"example.com/foo"}

\* RepoTag.Created is drawn from 0..MaxCreated ticks.
CreatedTimes == 0..MaxCreated

\* A row of repo_indexing or of repos, as the migration creates it.
DefaultRow == [indexing_began |-> NegInf, indexing_finished |-> NegInf]

VARIABLES
    now,            \* NOW() of the database
    flags,          \* the *ReindexTTL / *ReindexPeriod flags of the process
    repo_indexing,  \* the singleton row of table repo_indexing
    repos,          \* table repos: org_repo_name -> row
    repo_tags,      \* table repo_tags: a set of rows
    call,           \* the last database call and what it returned
    txs,            \* the open StoreRepoTags transaction of each connection
    fetched,        \* the last FetchRepoTags and what it returned
    stored,         \* per repo, the tags of the last StoreRepoTags committed
    pc,             \* where each task of the process group is, and main
    repoToReindex,  \* per tag worker, the repo it took from the queue
    githubBackoff,  \* the Backoff of main: Initial, Multiplier, Max and cur
    seen,           \* per task inside Pause, the bo.cur it has read
    grp,            \* the errgroup: its first error, and whether grpCtx is done
    paused,         \* the Pause calls made one after the other on a Backoff
    forge,          \* the listings the forge holds: repo URLs and tag refs
    crawl,          \* the GoRepos or TagsForRepo call of a GithubSCM, page by page
    waitTime,       \* per task waiting to check for work again, its wait in seconds
    dbRepoTags      \* per tag worker, the repo tags it crawled and is about to store

\* What the connections of the tag workers and of the HTTP handler hold.
sessionVars == <<txs, fetched, stored>>

\* What the goroutines of main hold, and the forge they crawl.
loopVars == <<pc, repoToReindex, githubBackoff, seen, grp, paused, forge, crawl, waitTime, dbRepoTags>>

vars ==
    <<now, flags, repo_indexing, repos, repo_tags, call, txs, fetched, stored,
      pc, repoToReindex, githubBackoff, seen, grp, paused, forge, crawl, waitTime, dbRepoTags>>

\* ---------------------------------------------------------- the lease WHERE

\* int64(d.Seconds()): a duration as the whole number of seconds passed to SQL.
Seconds(d) == d \div TicksPerSecond

\* ts + (secs * INTERVAL '1 SECOND'); '-infinity' plus an interval is '-infinity'.
PlusSeconds(ts, secs) == IF ts = NegInf THEN NegInf ELSE ts + secs * TicksPerSecond

\* A WHERE clause under which a lease never expires: only a row that was never
\* begun is taken.
NeedsReindexNoExpiry(row, reindexTTL, reindexPeriod, t) ==
    /\ row.indexing_began = NegInf
    /\ PlusSeconds(row.indexing_finished, Seconds(reindexPeriod)) < t

\* A WHERE clause that compares with ttl and period as they are given, to the
\* fraction of a second.
NeedsReindexExact(row, reindexTTL, reindexPeriod, t) ==
    /\ row.indexing_began = NegInf \/ row.indexing_began + reindexTTL < t
    /\ row.indexing_finished = NegInf \/ row.indexing_finished + reindexPeriod < t

\* The WHERE clause of both lease statements, for one row at time t.
NeedsReindex(row, reindexTTL, reindexPeriod, t) ==
    /\ PlusSeconds(row.indexing_began, Seconds(reindexTTL)) < t
    /\ PlusSeconds(row.indexing_finished, Seconds(reindexPeriod)) < t

\* The rows the inner SELECT of NextReindexRepoTagsWork ranges over.
Candidates(rs, reindexTTL, reindexPeriod, t) ==
    {r \in DOMAIN rs : NeedsReindex(rs[r], reindexTTL, reindexPeriod, t)}

\* ORDER BY indexing_finished ASC LIMIT 1: the rows that may come first (the
\* order among rows of equal indexing_finished is the database's choice).
OldestFinished(rs, cands) ==
    {r \in cands : \A q \in cands : rs[r].indexing_finished <= rs[q].indexing_finished}

\* ------------------------------------------------------------ StoreRepoTags

\* The repo tags a caller may hand to StoreRepoTags.
RepoTag == [OrgRepoName : OrgRepoNames, TagName : TagNames,
            ModulePath : ModulePaths, Created : CreatedTimes]

RECURSIVE SeqsUpTo(_, _)
SeqsUpTo(S, n) ==
    IF n = 0 THEN {<<>>}
    ELSE LET shorter == SeqsUpTo(S, n - 1)
         IN  shorter \cup {Append(q, x) : q \in {p \in shorter : Len(p) = n - 1}, x \in S}

\* rt.Created.Format(time.RFC3339): the time as text, to the whole second.
FormatRFC3339(t) == t \div TicksPerSecond

\* The TIMESTAMP the database reads from that text.
ParseTimestamp(txt) == txt * TicksPerSecond

\* orgRepoNames: the repos the given tags belong to.
OrgRepoNamesOf(repoTags) == {repoTags[i].OrgRepoName : i \in 1..Len(repoTags)}

\* The row INSERTed for one repo tag.
TagRow(rt) ==
    [org_repo_name |-> rt.OrgRepoName, tag_name |-> rt.TagName,
     module_path |-> rt.ModulePath, created |-> ParseTimestamp(FormatRFC3339(rt.Created))]

\* The tag rows of the repos in names.
TagsOf(tags, names) == {row \in tags : row.org_repo_name \in names}

\* A StoreRepoTags without its DELETE: the stored tags are kept.
TxDeleteNothing(tx, names) == tx

\* DELETE FROM repo_tags WHERE org_repo_name = $1 OR ...
TxDelete(tx, names) ==
    [tx EXCEPT !.repo_tags = {row \in tx.repo_tags : row.org_repo_name \notin names}]

\* An INSERT that no constraint of the table rejects.
InsertRejectedNever(tx, repoTags) == FALSE

\* The INSERT fails as a whole when two of its rows have the same primary key
\* (ON CONFLICT DO UPDATE cannot affect a row a second time) or when a row
\* references a repo that is not in table repos.
InsertRejected(tx, repoTags) ==
    \/ \E i, j \in 1..Len(repoTags) :
          /\ i # j
          /\ repoTags[i].OrgRepoName = repoTags[j].OrgRepoName
          /\ repoTags[i].TagName = repoTags[j].TagName
    \/ \E i \in 1..Len(repoTags) : repoTags[i].OrgRepoName \notin DOMAIN tx.repos

\* INSERT INTO repo_tags ... ON CONFLICT (org_repo_name, tag_name) DO UPDATE
\* SET created = EXCLUDED.created
TxInsert(tx, repoTags) ==
    LET given == {TagRow(repoTags[i]) : i \in 1..Len(repoTags)}
        Key(row) == <<row.org_repo_name, row.tag_name>>
        kept == {row \in tx.repo_tags : \A g \in given : Key(g) # Key(row)}
        updated == UNION {{[row EXCEPT !.created = g.created] :
                              g \in {h \in given : Key(h) = Key(row)}} :
                          row \in tx.repo_tags \ kept}
        fresh == {g \in given : \A row \in tx.repo_tags : Key(g) # Key(row)}
    IN  [tx EXCEPT !.repo_tags = kept \cup updated \cup fresh]

\* UPDATE repos SET indexing_finished = NOW() WHERE org_repo_name = $1 OR ...
TxUpdateFinished(tx, names, t) ==
    [tx EXCEPT !.repos = [r \in DOMAIN tx.repos |->
        IF r \in names THEN [tx.repos[r] EXCEPT !.indexing_finished = t] ELSE tx.repos[r]]]

\* Without the transaction, a failed call leaves what its statements did.
RollbackNothing(db, tx) == tx

\* defer tx.Rollback(): what the tables hold after a failed call.
Rollback(db, tx) == db

\* The steps of StoreRepoTags at which the database may fail.
FailPoints == {"BeginTx", "DELETE", "INSERT", "UPDATE", "Commit"}

\* A StoreRepoTags that stamps the tags with the time of the call (created =
\* NOW()) in place of the given Created.
StoreRepoTagsResultCreatedNow(db, repoTags, t, failAt) ==
    LET names == OrgRepoNamesOf(repoTags)
        tx1 == TxDelete(db, names)
        tx2 == [tx1 EXCEPT !.repo_tags =
                   {[row EXCEPT !.created = t] : row \in TxInsert(tx1, repoTags).repo_tags}]
        tx3 == TxUpdateFinished(tx2, names, t)
    IN  IF Len(repoTags) = 0 \/ failAt # "none" \/ InsertRejected(tx1, repoTags)
        THEN [db |-> db, err |-> TRUE]
        ELSE [db |-> tx3, err |-> FALSE]

\* The tables after StoreRepoTags(repoTags) at time t, and whether it returned
\* an error, when the database fails at failAt ("none": it does not fail).
StoreRepoTagsResult(db, repoTags, t, failAt) ==
    LET names == OrgRepoNamesOf(repoTags)
        tx1 == TxDelete(db, names)
        tx2 == TxInsert(tx1, repoTags)
        tx3 == TxUpdateFinished(tx2, names, t)
    IN  IF Len(repoTags) = 0 \/ failAt = "BeginTx" THEN [db |-> db, err |-> TRUE]
        ELSE IF failAt = "DELETE" THEN [db |-> Rollback(db, db), err |-> TRUE]
        ELSE IF failAt = "INSERT" \/ InsertRejected(tx1, repoTags)
             THEN [db |-> Rollback(db, tx1), err |-> TRUE]
        ELSE IF failAt = "UPDATE" THEN [db |-> Rollback(db, tx2), err |-> TRUE]
        ELSE IF failAt = "Commit" THEN [db |-> Rollback(db, tx3), err |-> TRUE]
        ELSE [db |-> tx3, err |-> FALSE]

\* The last call: its name, argument and results (ok: work acquired / stored;
\* repo: the repo returned; err: an error returned), and whether it repeated
\* the call before it (again).
NoCall ==
    [op |-> "none", ok |-> FALSE, repo |-> "", err |-> FALSE, arg |-> <<>>,
     again |-> FALSE]

\* The call before this one was the same call, and it succeeded.
Again(op, arg) == call.op = op /\ call.ok /\ call.arg = arg

\* ------------------------------------------------------------ connections

\* The connections (sessions) of the database that run StoreRepoTags.
Sessions == {"w1", "w2"}

\* A connection with no transaction open.
NoTx ==
    [stage |-> "none", repoTags |-> <<>>, began |-> 0, targets |-> {},
     deleted |-> {}, replaced |-> {}, written |-> {}, finished |-> {}]

\* No FetchRepoTags has returned. (during: the connections whose transaction
\* had deleted or written rows when the SELECT ran; status and lines: the
\* response when the HTTP handler made the call, status 0 when it did not.)
NoFetch ==
    [done |-> FALSE, since |-> 0, limit |-> 0, rows |-> <<>>, during |-> {},
     status |-> 0, lines |-> <<>>]

\* No transaction is open, nothing was fetched, no StoreRepoTags has committed.
NoSessions ==
    /\ txs = [w \in Sessions |-> NoTx]
    /\ fetched = NoFetch
    /\ stored = <<>>

\* ------------------------------------------------------ the process group

\* The tag workers (--repoTagsReindexingWorkers of them), each on a connection.
Workers == Sessions

\* The goroutines of the errgroup: the all-repos loop and the tag workers.
Tasks == {"all"} \cup Workers

\* githubBackoff of main, with durations in seconds and the multiplier in
\* halves: Initial 30s, Multiplier 1.5, Max 5m.
GithubInitial == 30

GithubMultiplier == 3

GithubMax == 300

\* No Pause was called: k calls so far, the last returned d or panicked.
NoPause == [k |-> 0, d |-> 0, panicked |-> FALSE]

\* A forge that lists nothing.
NoForge == [repos |-> <<>>, tags |-> <<>>]

\* A GithubSCM for the forge at githubHostName on which no call was made:
\* tagsCursor is nil (0), no page was requested, nothing has returned.
NoCrawl ==
    [op |-> "none", githubHostName |-> "", orgRepoName |-> <<>>, tagsCursor |-> 0,
     requests |-> <<>>, goMods |-> <<>>, results |-> <<>>, returned |-> FALSE,
     err |-> FALSE]

\* No forge client is at work and no task waits.
NoCrawling ==
    /\ forge = NoForge
    /\ crawl = NoCrawl
    /\ waitTime = [t \in Tasks |-> 0]
    /\ dbRepoTags = [w \in Workers |-> <<>>]

\* main as it starts the group: every task is about to ask for work, the
\* Backoff is as constructed (cur is zero), grpCtx is not done.
LoopsStart ==
    /\ pc = [t \in Tasks \cup {"main"} |-> IF t = "main" THEN "Wait" ELSE "poll"]
    /\ repoToReindex = [w \in Workers |-> ""]
    /\ githubBackoff = [Initial |-> GithubInitial, Multiplier |-> GithubMultiplier,
                        Max |-> GithubMax, cur |-> 0]
    /\ seen = [t \in Tasks |-> 0]
    /\ grp = [err |-> "", cancelled |-> FALSE]
    /\ paused = NoPause
    /\ NoCrawling

\* ---------------------------------------------------------------- actions

\* The tables as the migrations leave them.
FreshTables ==
    /\ repo_indexing = DefaultRow
    /\ repos = <<>>
    /\ repo_tags = {}
    /\ call = NoCall

\* The flags of the process: the ttl and period of the two work queues.
FlagsIn(allTTLs, allPeriods, tagsTTLs, tagsPeriods) ==
    flags \in [allReposReindexTTL : allTTLs, allReposReindexPeriod : allPeriods,
               repoTagsReindexTTL : tagsTTLs, repoTagsReindexPeriod : tagsPeriods]

\* The flag values of the repo tags queue: a fraction of a second and a second.
RepoTagsDurations == {TicksPerSecond - 1, TicksPerSecond}

\* A process starts on a migrated database.
Init ==
    /\ now = 0
    /\ FlagsIn({TicksPerSecond}, {TicksPerSecond}, RepoTagsDurations, RepoTagsDurations)
    /\ FreshTables
    /\ NoSessions
    /\ LoopsStart

\* The timestamps a row may hold at time t.
TimestampsUpTo(t) == {NegInf} \cup 0..t

\* The singleton row holds any timestamps of the past (as setAllReposIndexing
\* sets them), under any flags for the all-repos queue.
InitAllRepos ==
    /\ now \in Times
    /\ FlagsIn(Durations, Durations, {TicksPerSecond}, {TicksPerSecond})
    /\ repo_indexing \in [indexing_began : TimestampsUpTo(now),
                          indexing_finished : TimestampsUpTo(now)]
    /\ repos = <<>>
    /\ repo_tags = {}
    /\ call = NoCall
    /\ NoSessions
    /\ LoopsStart

\* Time passes.
Tick ==
    /\ now < MaxTime
    /\ now' = now + 1
    /\ UNCHANGED <<flags, repo_indexing, repos, repo_tags, call>>

\* DB.NextReindexAllReposWork: one UPDATE of the singleton row.
NextReindexAllReposWork ==
    \E fails \in BOOLEAN :
        LET hit == NeedsReindex(repo_indexing, flags.allReposReindexTTL,
                                flags.allReposReindexPeriod, now)
        IN  /\ repo_indexing' = IF ~fails /\ hit
                                THEN [repo_indexing EXCEPT !.indexing_began = now]
                                ELSE repo_indexing
            /\ call' = [op |-> "NextReindexAllReposWork", ok |-> ~fails /\ hit,
                        repo |-> "", err |-> fails, arg |-> <<>>,
                        again |-> Again("NextReindexAllReposWork", <<>>)]
            /\ UNCHANGED <<now, flags, repos, repo_tags>>

\* DB.NextReindexRepoTagsWork: one UPDATE ... RETURNING of at most one row of repos.
NextReindexRepoTagsWork ==
    \E fails \in BOOLEAN :
        LET first == OldestFinished(repos, Candidates(repos, flags.repoTagsReindexTTL,
                                                      flags.repoTagsReindexPeriod, now))
        IN  IF fails \/ first = {}
            THEN /\ call' = [op |-> "NextReindexRepoTagsWork", ok |-> FALSE,
                             repo |-> "", err |-> fails, arg |-> <<>>,
                             again |-> Again("NextReindexRepoTagsWork", <<>>)]
                 /\ UNCHANGED <<now, flags, repo_indexing, repos, repo_tags>>
            ELSE \E r \in first :
                 /\ repos' = [repos EXCEPT ![r].indexing_began = now]
                 /\ call' = [op |-> "NextReindexRepoTagsWork", ok |-> TRUE,
                             repo |-> r, err |-> FALSE, arg |-> <<>>,
                             again |-> Again("NextReindexRepoTagsWork", <<>>)]
                 /\ UNCHANGED <<now, flags, repo_indexing, repo_tags>>

\* A StoreRepos that resets the rows of the repos it is given and that are
\* stored already (ON CONFLICT DO UPDATE in place of DO NOTHING).
StoreReposResetting(orgRepoNames) ==
    \E fails \in BOOLEAN :
        LET err == fails \/ Len(orgRepoNames) = 0
            given == {orgRepoNames[i] : i \in 1..Len(orgRepoNames)}
        IN  /\ repos' = IF err THEN repos
                        ELSE [r \in DOMAIN repos \cup given |->
                                 IF r \in given THEN DefaultRow ELSE repos[r]]
            /\ call' = [op |-> "StoreRepos", ok |-> ~err, repo |-> "", err |-> err,
                        arg |-> orgRepoNames,
                        again |-> Again("StoreRepos", orgRepoNames)]
            /\ UNCHANGED <<now, flags, repo_indexing, repo_tags>>

\* A StoreRepos that also marks the listing of all repos as finished in the
\* singleton row.
StoreReposFinishing(orgRepoNames) ==
    \E fails \in BOOLEAN :
        LET err == fails \/ Len(orgRepoNames) = 0
            new == {orgRepoNames[i] : i \in 1..Len(orgRepoNames)} \ DOMAIN repos
        IN  /\ repos' = IF err THEN repos ELSE repos @@ [r \in new |-> DefaultRow]
            /\ repo_indexing' = IF err THEN repo_indexing
                                ELSE [repo_indexing EXCEPT !.indexing_finished = now]
            /\ call' = [op |-> "StoreRepos", ok |-> ~err, repo |-> "", err |-> err,
                        arg |-> orgRepoNames,
                        again |-> Again("StoreRepos", orgRepoNames)]
            /\ UNCHANGED <<now, flags, repo_tags>>

\* A StoreRepos that takes an empty list for nothing to do.
StoreReposEmptyIsNil(orgRepoNames) ==
    \E fails \in BOOLEAN :
        LET new == {orgRepoNames[i] : i \in 1..Len(orgRepoNames)} \ DOMAIN repos
        IN  /\ repos' = IF fails THEN repos ELSE repos @@ [r \in new |-> DefaultRow]
            /\ call' = [op |-> "StoreRepos", ok |-> ~fails, repo |-> "", err |-> fails,
                        arg |-> orgRepoNames,
                        again |-> Again("StoreRepos", orgRepoNames)]
            /\ UNCHANGED <<now, flags, repo_indexing, repo_tags>>

\* DB.StoreRepos: INSERT ... ON CONFLICT (org_repo_name) DO NOTHING.
StoreRepos(orgRepoNames) ==
    \E fails \in BOOLEAN :
        LET err == fails \/ Len(orgRepoNames) = 0
            new == {orgRepoNames[i] : i \in 1..Len(orgRepoNames)} \ DOMAIN repos
        IN  /\ repos' = IF err THEN repos ELSE repos @@ [r \in new |-> DefaultRow]
            /\ call' = [op |-> "StoreRepos", ok |-> ~err, repo |-> "", err |-> err,
                        arg |-> orgRepoNames,
                        again |-> Again("StoreRepos", orgRepoNames)]
            /\ UNCHANGED <<now, flags, repo_indexing, repo_tags>>

\* DB.StoreRepoTags: DELETE, INSERT and UPDATE in one transaction.
StoreRepoTags(repoTags, failAt) ==
    LET res == StoreRepoTagsResult([repos |-> repos, repo_tags |-> repo_tags],
                                   repoTags, now, failAt)
    IN  /\ repos' = res.db.repos
        /\ repo_tags' = res.db.repo_tags
        /\ call' = [op |-> "StoreRepoTags", ok |-> ~res.err, repo |-> "",
                    err |-> res.err, arg |-> repoTags,
                    again |-> Again("StoreRepoTags", repoTags)]
        /\ UNCHANGED <<now, flags, repo_indexing>>

\* The repo lists and tag lists the callers of this specification pass.
RepoLists == {<<>>, <<"foo/bar">>, <<"foo/bar", "gaz/urk">>}

LeaseRepoTags ==
    {<<[OrgRepoName |-> r, TagName |-> "v0.0.1",
        ModulePath |-> "example.com/foo", Created |-> 0]>> : r \in OrgRepoNames}

Next ==
    \/ Tick /\ UNCHANGED <<sessionVars, loopVars>>
    \/ NextReindexRepoTagsWork /\ UNCHANGED <<sessionVars, loopVars>>
    \/ \E orgRepoNames \in RepoLists : StoreRepos(orgRepoNames) /\ UNCHANGED <<sessionVars, loopVars>>
    \/ \E repoTags \in LeaseRepoTags, failAt \in {"none", "Commit"} :
          StoreRepoTags(repoTags, failAt) /\ UNCHANGED <<sessionVars, loopVars>>

Spec == Init /\ [][Next]_vars

NextAllRepos ==
    \/ Tick /\ UNCHANGED <<sessionVars, loopVars>>
    \/ NextReindexAllReposWork /\ UNCHANGED <<sessionVars, loopVars>>

SpecAllRepos == InitAllRepos /\ [][NextAllRepos]_vars

\* ------------------------------------------------ holders that never finish

\* A timestamp one tick further in the past. Timestamps are kept relative to
\* now = MaxTime: one of MaxTime ticks ago or more stays at 0, which is longer
\* ago than every ttl and period of the flags (at most TicksPerSecond ticks,
\* and TicksPerSecond < MaxTime).
Aged(ts) == IF ts = NegInf \/ ts = 0 THEN ts ELSE ts - 1

AgedRow(row) ==
    [indexing_began |-> Aged(row.indexing_began),
     indexing_finished |-> Aged(row.indexing_finished)]

\* One tick passes, without end: NOW() moves on and every stored timestamp is
\* one tick older.
Elapse ==
    /\ repo_indexing' = AgedRow(repo_indexing)
    /\ repos' = [r \in DOMAIN repos |-> AgedRow(repos[r])]
    /\ UNCHANGED <<now, flags, repo_tags, call>>

InitStalled ==
    /\ now = MaxTime
    /\ FlagsIn(RepoTagsDurations, {TicksPerSecond}, RepoTagsDurations, {TicksPerSecond})
    /\ FreshTables
    /\ NoSessions
    /\ LoopsStart

\* Workers take work and never store a result: every holder crashes or fails.
NextStalled ==
    \/ Elapse /\ UNCHANGED <<sessionVars, loopVars>>
    \/ NextReindexAllReposWork /\ UNCHANGED <<sessionVars, loopVars>>
    \/ NextReindexRepoTagsWork /\ UNCHANGED <<sessionVars, loopVars>>
    \/ \E orgRepoNames \in RepoLists : StoreRepos(orgRepoNames) /\ UNCHANGED <<sessionVars, loopVars>>

\* Time passes, and the workers keep polling: a lease statement that finds work
\* is eventually run.
SpecStalled ==
    /\ InitStalled
    /\ [][NextStalled]_vars
    /\ WF_vars(Elapse /\ UNCHANGED <<sessionVars, loopVars>>)
    /\ WF_vars(NextReindexAllReposWork /\ call'.ok /\ UNCHANGED <<sessionVars, loopVars>>)
    /\ WF_vars(NextReindexRepoTagsWork /\ call'.ok /\ UNCHANGED <<sessionVars, loopVars>>)

\* ------------------------------------------- StoreRepoTags on stored tables

\* The repo tag lists given to StoreRepoTags.
StoreInputs == SeqsUpTo(RepoTag, MaxRepoTags)

\* Tables as StoreRepos and StoreRepoTags leave them: tags only of repos in
\* table repos, one row per (org_repo_name, tag_name).
StoredTagTables(names) ==
    {T \in SUBSET {TagRow(rt) : rt \in RepoTag} :
        /\ \A row \in T : row.org_repo_name \in names
        /\ \A a, b \in T : (a.org_repo_name = b.org_repo_name /\ a.tag_name = b.tag_name)
                              => a = b}

\* The tables when StoreRepoTags is first called, two ticks before the clock of
\* the model stops: time enough for a call, a repeated call and the time
\* between them.
InitStore ==
    /\ now = MaxTime - 2
    /\ FlagsIn({TicksPerSecond}, {TicksPerSecond}, {TicksPerSecond}, {TicksPerSecond})
    /\ repo_indexing = DefaultRow
    /\ \E names \in {{"foo/bar"}, OrgRepoNames} :
          /\ repos = [r \in names |-> DefaultRow]
          /\ repo_tags \in StoredTagTables(names)
    /\ call = NoCall
    /\ NoSessions
    /\ LoopsStart

\* StoreRepoTags is called with any tags, and then again with the same tags,
\* at any times; each call may fail at any of its steps.
NextStore ==
    \/ Tick /\ UNCHANGED <<sessionVars, loopVars>>
    \/ /\ call.op = "none"
       /\ \E repoTags \in StoreInputs, failAt \in FailPoints \cup {"none"} :
             StoreRepoTags(repoTags, failAt)
       /\ UNCHANGED <<sessionVars, loopVars>>
    \/ /\ call.op = "StoreRepoTags" /\ call.ok
       /\ \E failAt \in FailPoints \cup {"none"} : StoreRepoTags(call.arg, failAt)
       /\ UNCHANGED <<sessionVars, loopVars>>

SpecStore == InitStore /\ [][NextStore]_vars

\* ------------------------------------------- the rows of repos and repo_tags

\* The tags the callers of this specification pass: two tags of foo/bar, each
\* created at one of two seconds, and one tag of gaz/urk.
TableRepoTags ==
    LET Tag(r, v, s) == [OrgRepoName |-> r, TagName |-> v,
                         ModulePath |-> "example.com/foo", Created |-> ParseTimestamp(s)]
    IN  SeqsUpTo({Tag("foo/bar", v, s) : v \in {"v0.0.1", "v0.0.2"}, s \in {0, 1}}
                 \cup {Tag("gaz/urk", "v0.0.1", 0)}, 2)

\* On a migrated database the repos are listed, leased and their tags stored,
\* in any order and with any of the lists above.
NextTables ==
    \/ NextReindexRepoTagsWork /\ UNCHANGED <<sessionVars, loopVars>>
    \/ \E orgRepoNames \in RepoLists :
          StoreRepos(orgRepoNames) /\ UNCHANGED <<sessionVars, loopVars>>
    \/ \E repoTags \in TableRepoTags, failAt \in {"none", "Commit"} :
          StoreRepoTags(repoTags, failAt) /\ UNCHANGED <<sessionVars, loopVars>>

SpecTables == Init /\ [][NextTables]_vars

\* ------------------- StoreRepoTags and FetchRepoTags, statement by statement

\* The primary key of a row of repo_tags: (org_repo_name, tag_name).
PrimaryKey(row) == <<row.org_repo_name, row.tag_name>>

\* A database without transaction isolation: the other connections see what a
\* transaction has written before it commits.
VisibleUncommitted(table, t) == (table \ (t.deleted \cup t.replaced)) \cup t.written

\* What the other connections see of repo_tags while transaction t is open:
\* the committed rows only (READ COMMITTED, the isolation BeginTx(ctx, nil)
\* gets).
Visible(table, t) == table

\* tx.Commit(): repo_tags once the rows t deleted, replaced and wrote are
\* committed.
Committed(table, t) == (table \ (t.deleted \cup t.replaced)) \cup t.written

\* The rows of repo_tags that open transactions of other connections have
\* deleted or updated, and so hold locked until they end.
LockedByOthers(w) == UNION {txs[v].deleted \cup txs[v].replaced : v \in Sessions \ {w}}

\* The primary keys that open transactions of other connections have written.
KeysWrittenByOthers(w) ==
    {PrimaryKey(row) : row \in UNION {txs[v].written : v \in Sessions \ {w}}}

\* d.db.BeginTx(ctx, nil) of StoreRepoTags(repoTags) on connection w; an empty
\* repoTags returns an error before it.
BeginTx(w, repoTags) ==
    /\ txs[w].stage = "none"
    /\ Len(repoTags) > 0
    /\ txs' = [txs EXCEPT ![w] = [NoTx EXCEPT !.stage = "begun", !.repoTags = repoTags,
                                              !.began = now]]
    /\ UNCHANGED <<now, flags, repo_indexing, repos, repo_tags, call, fetched, stored>>

\* The DELETE starts: it will find the rows of the repos that are committed now.
DeleteBegins(w) ==
    /\ txs[w].stage = "begun"
    /\ txs' = [txs EXCEPT ![w].stage = "deleting",
                          ![w].targets = TagsOf(repo_tags, OrgRepoNamesOf(txs[w].repoTags))]
    /\ UNCHANGED <<now, flags, repo_indexing, repos, repo_tags, call, fetched, stored>>

\* The DELETE ends, once no row it found is locked by another transaction: it
\* deletes the rows it found that are still stored, in the version committed
\* last, and no row committed after it started.
DeleteEnds(w) ==
    LET hit == {row \in repo_tags :
                   \E t \in txs[w].targets : PrimaryKey(t) = PrimaryKey(row)}
    IN  /\ txs[w].stage = "deleting"
        /\ hit \cap LockedByOthers(w) = {}
        /\ txs' = [txs EXCEPT ![w].stage = "deleted", ![w].deleted = hit]
        /\ repo_tags' = Visible(repo_tags, txs'[w])
        /\ UNCHANGED <<now, flags, repo_indexing, repos, call, fetched, stored>>

\* The INSERT ... ON CONFLICT DO UPDATE, once no row it conflicts with is
\* locked or written by another open transaction: a given row whose key is
\* stored (committed, and not deleted by this transaction) updates created of
\* that row, every other given row is inserted. A rejected INSERT returns an
\* error and the deferred Rollback ends the transaction.
Insert(w) ==
    LET repoTags == txs[w].repoTags
        given == {TagRow(repoTags[i]) : i \in 1..Len(repoTags)}
        live == repo_tags \ txs[w].deleted
        conflicts == {row \in live : \E g \in given : PrimaryKey(g) = PrimaryKey(row)}
        updated == UNION {{[row EXCEPT !.created = g.created] :
                              g \in {h \in given : PrimaryKey(h) = PrimaryKey(row)}} :
                          row \in conflicts}
        fresh == {g \in given : \A row \in live : PrimaryKey(g) # PrimaryKey(row)}
    IN  /\ txs[w].stage = "deleted"
        /\ conflicts \cap LockedByOthers(w) = {}
        /\ {PrimaryKey(g) : g \in given} \cap KeysWrittenByOthers(w) = {}
        /\ txs' = IF InsertRejected([repos |-> repos, repo_tags |-> live], repoTags)
                  THEN [txs EXCEPT ![w] = NoTx]
                  ELSE [txs EXCEPT ![w].stage = "inserted", ![w].replaced = conflicts,
                                   ![w].written = updated \cup fresh]
        /\ repo_tags' = Visible(repo_tags, txs'[w])
        /\ UNCHANGED <<now, flags, repo_indexing, repos, call, fetched, stored>>

\* UPDATE repos SET indexing_finished = NOW(), once no other open transaction
\* has updated a row of these repos.
UpdateFinished(w) ==
    LET names == OrgRepoNamesOf(txs[w].repoTags)
    IN  /\ txs[w].stage = "inserted"
        /\ \A v \in Sessions \ {w} : txs[v].finished \cap names = {}
        /\ txs' = [txs EXCEPT ![w].stage = "updated",
                              ![w].finished = names \cap DOMAIN repos]
        /\ UNCHANGED <<now, flags, repo_indexing, repos, repo_tags, call, fetched, stored>>

\* tx.Commit(): what the transaction wrote becomes visible, in one step. NOW()
\* of the UPDATE is the time the transaction began.
Commit(w) ==
    LET t == txs[w]
        names == OrgRepoNamesOf(t.repoTags)
        given == {TagRow(t.repoTags[i]) : i \in 1..Len(t.repoTags)}
    IN  /\ t.stage = "updated"
        /\ repo_tags' = Committed(repo_tags, t)
        /\ repos' = [r \in DOMAIN repos |->
                        IF r \in t.finished
                        THEN [repos[r] EXCEPT !.indexing_finished = t.began]
                        ELSE repos[r]]
        /\ stored' = [r \in DOMAIN stored \cup names |->
                         IF r \in names THEN TagsOf(given, {r}) ELSE stored[r]]
        /\ txs' = [txs EXCEPT ![w] = NoTx]
        /\ UNCHANGED <<now, flags, repo_indexing, call, fetched>>

\* A statement or the Commit fails (the database, the connection or ctx): the
\* deferred tx.Rollback() ends the transaction.
RollbackTx(w) ==
    /\ txs[w].stage # "none"
    /\ txs' = [txs EXCEPT ![w] = NoTx]
    /\ UNCHANGED <<now, flags, repo_indexing, repos, repo_tags, call, fetched, stored>>

\* The same SELECT with ORDER BY created ASC.
FetchResultsAscending(table, since, limit) ==
    LET match == {row \in table : row.created >= since}
        n == IF limit < Cardinality(match) THEN limit ELSE Cardinality(match)
    IN  {q \in SeqsUpTo(match, n) :
            /\ Len(q) = n
            /\ \A i, j \in 1..n : i < j => q[i] # q[j] /\ q[i].created <= q[j].created
            /\ \A row \in match :
                  (\A i \in 1..n : q[i] # row) => \A i \in 1..n : q[i].created <= row.created}

\* The rows SELECT ... WHERE created >= since ORDER BY created DESC LIMIT limit
\* may return from the table: rows of equal created come in any order.
FetchResults(table, since, limit) ==
    LET match == {row \in table : row.created >= since}
        n == IF limit < Cardinality(match) THEN limit ELSE Cardinality(match)
    IN  {q \in SeqsUpTo(match, n) :
            /\ Len(q) = n
            /\ \A i, j \in 1..n : i < j => q[i] # q[j] /\ q[i].created >= q[j].created
            /\ \A row \in match :
                  (\A i \in 1..n : q[i] # row) => \A i \in 1..n : q[i].created >= row.created}

\* DB.FetchRepoTags: one SELECT, which reads the committed rows.
FetchRepoTags(since, limit) ==
    /\ \E q \in FetchResults(repo_tags, since, limit) :
          fetched' = [done |-> TRUE, since |-> since, limit |-> limit, rows |-> q,
                      during |-> {w \in Sessions : txs[w].deleted \cup txs[w].written # {}},
                      status |-> 0, lines |-> <<>>]
    /\ UNCHANGED <<now, flags, repo_indexing, repos, repo_tags, call, txs, stored>>

\* The most rows a FetchRepoTags of this specification asks for.
MaxLimit == 2

\* The crawl results two workers store: for foo/bar one tag or two others, for
\* gaz/urk one tag.
CrawledTags ==
    LET Tag(r, v) == [OrgRepoName |-> r, TagName |-> v,
                      ModulePath |-> "example.com/foo", Created |-> 0]
    IN  {<<Tag("foo/bar", "v0.0.1")>>,
         <<Tag("foo/bar", "v0.0.2"), Tag("foo/bar", "v0.0.3")>>,
         <<Tag("gaz/urk", "v0.0.1")>>}

\* Both repos are stored; foo/bar has no tag yet or the tag v0.0.1.
InitTx ==
    /\ now = 0
    /\ FlagsIn({TicksPerSecond}, {TicksPerSecond}, {TicksPerSecond}, {TicksPerSecond})
    /\ repo_indexing = DefaultRow
    /\ repos = [r \in OrgRepoNames |-> DefaultRow]
    /\ repo_tags \in {{}, {TagRow(rt) : rt \in {[OrgRepoName |-> "foo/bar",
                            TagName |-> "v0.0.1", ModulePath |-> "example.com/foo",
                            Created |-> 0]}}}
    /\ call = NoCall
    /\ NoSessions
    /\ LoopsStart

\* The connections run StoreRepoTags at any times, statement by statement, and
\* one FetchRepoTags reads at any time in between.
NextTx ==
    \/ \E w \in Sessions, repoTags \in CrawledTags :
          BeginTx(w, repoTags) /\ UNCHANGED loopVars
    \/ \E w \in Sessions : DeleteBegins(w) /\ UNCHANGED loopVars
    \/ \E w \in Sessions : DeleteEnds(w) /\ UNCHANGED loopVars
    \/ \E w \in Sessions : Insert(w) /\ UNCHANGED loopVars
    \/ \E w \in Sessions : UpdateFinished(w) /\ UNCHANGED loopVars
    \/ \E w \in Sessions : Commit(w) /\ UNCHANGED loopVars
    \/ \E w \in Sessions : RollbackTx(w) /\ UNCHANGED loopVars
    \/ /\ ~fetched.done
       /\ \E limit \in 1..MaxLimit : FetchRepoTags(0, limit)
       /\ UNCHANGED loopVars

SpecTx == InitTx /\ [][NextTx]_vars

\* ------------------------------------------------------------- the Backoff

\* Durations of a Backoff are counted in seconds; time.Duration is a signed
\* integer of DurationBits bits (int64 in the program).
DurationBits == 10

MaxInt == 2^(DurationBits - 1) - 1

MinInt == -(2^(DurationBits - 1))

\* time.Second and 30 * time.Second, the defaults of Initial and Max.
DefaultInitial == 1

DefaultMax == 30

\* The default Multiplier, 2, in halves.
DefaultMultiplier == 4

\* The four ifs at the head of Pause: zero fields get their defaults, a
\* Multiplier below 1 becomes 2, and cur starts at Initial.
WithDefaults(bo) ==
    LET b1 == IF bo.Initial = 0 THEN [bo EXCEPT !.Initial = DefaultInitial] ELSE bo
        b2 == IF b1.cur = 0 THEN [b1 EXCEPT !.cur = b1.Initial] ELSE b1
        b3 == IF b2.Max = 0 THEN [b2 EXCEPT !.Max = DefaultMax] ELSE b2
    IN  IF b3.Multiplier < 2 THEN [b3 EXCEPT !.Multiplier = DefaultMultiplier] ELSE b3

\* time.Duration(float64(cur) * Multiplier): the product cut to an integer;
\* when it is beyond the range of the integer type the conversion gives a
\* value that depends on the platform (the least or the greatest integer).
Scaled(cur, multiplier) ==
    IF (cur * multiplier) \div 2 > MaxInt THEN {MinInt, MaxInt}
    ELSE {(cur * multiplier) \div 2}

\* A Backoff whose limit is never capped.
NextCurUncapped(cur, bo) == Scaled(cur, bo.Multiplier)

\* min(time.Duration(float64(bo.cur)*bo.Multiplier), bo.Max): the values cur
\* may take after a Pause that read cur.
NextCur(cur, bo) ==
    {IF c < bo.Max THEN c ELSE bo.Max : c \in Scaled(cur, bo.Multiplier)}

\* rand.Int63n(n) panics unless n > 0.
PausePanics(bo) == WithDefaults(bo).cur <= 0

\* 1 + rand.Int63n(int64(bo.cur)): the durations Pause may return.
PauseDurations(bo) == 1..WithDefaults(bo).cur

\* The most Pause calls made on one Backoff.
MaxPauses == 3

\* Fields of a Backoff are drawn from -1..MaxField seconds (Initial, Max) and
\* from 0..MaxField halves (Multiplier: 0 to MaxField / 2).
MaxField == 4

\* A Multiplier so large that every product is beyond the integer range.
HugeMultiplier == 2 * (MaxInt + 1)

\* bo.Pause(), called when no other call is running: it panics, or returns
\* one of the durations up to bo.cur and raises bo.cur.
Pause ==
    LET bo == WithDefaults(githubBackoff)
    IN  /\ paused.k < MaxPauses
        /\ ~paused.panicked
        /\ IF PausePanics(githubBackoff)
           THEN /\ githubBackoff' = bo
                /\ paused' = [k |-> paused.k + 1, d |-> 0, panicked |-> TRUE]
           ELSE /\ \E c \in NextCur(bo.cur, bo) : githubBackoff' = [bo EXCEPT !.cur = c]
                /\ \E d \in PauseDurations(githubBackoff) :
                      paused' = [k |-> paused.k + 1, d |-> d, panicked |-> FALSE]
        /\ UNCHANGED <<now, flags, repo_indexing, repos, repo_tags, call, sessionVars,
                       pc, repoToReindex, seen, grp, forge, crawl, waitTime, dbRepoTags>>

\* A Backoff as a caller may construct it: any fields, cur zero.
InitBackoff ==
    /\ now = 0
    /\ FlagsIn({TicksPerSecond}, {TicksPerSecond}, {TicksPerSecond}, {TicksPerSecond})
    /\ FreshTables
    /\ NoSessions
    /\ pc = [t \in Tasks \cup {"main"} |-> IF t = "main" THEN "Wait" ELSE "poll"]
    /\ repoToReindex = [w \in Workers |-> ""]
    /\ githubBackoff \in [Initial : -1..MaxField, Max : -1..MaxField,
                           Multiplier : 0..MaxField \cup {HugeMultiplier}, cur : {0}]
    /\ seen = [t \in Tasks |-> 0]
    /\ grp = [err |-> "", cancelled |-> FALSE]
    /\ paused = NoPause
    /\ NoCrawling

NextBackoff == Pause

SpecBackoff == InitBackoff /\ [][NextBackoff]_vars

\* ------------------------------------------------------ the loops of main

\* A task returns a non-nil error: the first one is kept and cancels grpCtx.
Failed(g, t) == IF g.err = "" THEN [err |-> t, cancelled |-> TRUE] ELSE g

\* What is left unchanged by a step of a task that leaves the backoff alone.
SharedFrame == UNCHANGED <<sessionVars, githubBackoff, seen, paused, forge, crawl>>

\* The same of a step that begins or ends a wait for work.
PollFrame == SharedFrame /\ UNCHANGED dbRepoTags

\* The same of a step that does neither, and no crawl.
LoopFrame == PollFrame /\ UNCHANGED waitTime

\* The forge the loops crawl: every repo has the tag v0.0.1 from the start,
\* and the tag v0.0.2 from the second second on.
TagsAt(r, t) ==
    LET Tag(v, s) == [OrgRepoName |-> r, TagName |-> v,
                      ModulePath |-> "example.com/foo", Created |-> ParseTimestamp(s)]
    IN  IF t < ParseTimestamp(1) THEN <<Tag("v0.0.1", 0)>>
        ELSE <<Tag("v0.0.1", 0), Tag("v0.0.2", 1)>>

\* The worker w holds the repo tags it crawled.
Crawled(w, repoTags) == dbRepoTags' = [dbRepoTags EXCEPT ![w] = repoTags]

\* The defaults of --allReposReindexWorkCheckPeriod and of
\* --repoTagsReindexingWorkCheckPeriod, 5 minutes, in seconds.
allReposReindexWorkCheckPeriod == 300

repoTagsReindexingWorkCheckPeriod == 300

\* A random source that may also return n.
IntnInclusive(n) == 0..n

\* rand.Intn(n): any integer from 0 to n - 1.
Intn(n) == 0..(n - 1)

\* The n of rand.Intn(60): the jitter is at most 60 seconds.
MaxJitter == 60

\* time.Duration((rand.Intn(60) + 1) * 1e9), in seconds (the product is below
\* 2^63 nanoseconds, the range of the integers of the program's platforms).
Jitters == {n + 1 : n \in Intn(MaxJitter)}

\* The task t begins to wait d seconds before it checks for work again.
Waits(t, d) == waitTime' = [waitTime EXCEPT ![t] = d]

\* A loop that takes an error of the database for "no work": it goes on.
AfterCallErrorIsNoWork(t, onOk, onNone) ==
    /\ pc' = [pc EXCEPT ![t] = IF call'.ok THEN onOk ELSE onNone]
    /\ grp' = grp

\* The task returns when the call returned an error, and goes on otherwise.
AfterCall(t, onOk, onNone) ==
    /\ pc' = [pc EXCEPT ![t] = IF call'.err THEN "returned"
                                ELSE IF call'.ok THEN onOk ELSE onNone]
    /\ grp' = IF call'.err THEN Failed(grp, t) ELSE grp

\* The all-repos loop asks for the global lease (grpCtx: a done context makes
\* the call fail).
AllPoll ==
    /\ pc["all"] = "poll"
    /\ NextReindexAllReposWork
    /\ grp.cancelled => call'.err
    /\ AfterCall("all", "crawl", "idle")
    /\ Waits("all", IF pc'["all"] = "idle" THEN allReposReindexWorkCheckPeriod ELSE 0)
    /\ UNCHANGED repoToReindex
    /\ PollFrame

\* A loop that waits the check period after an error of the forge, without a
\* Pause of the backoff.
AllCrawlErrorIdles ==
    /\ pc["all"] = "crawl"
    /\ \E answers \in BOOLEAN :
          /\ grp.cancelled => ~answers
          /\ pc' = [pc EXCEPT !["all"] = IF answers THEN "store" ELSE "idle"]
    /\ Waits("all", IF pc'["all"] = "idle" THEN allReposReindexWorkCheckPeriod ELSE 0)
    /\ UNCHANGED <<now, flags, repo_indexing, repos, repo_tags, call, repoToReindex, grp>>
    /\ PollFrame

\* githubSCM.GoRepos(grpCtx) answers or fails; an error leads to the backoff.
AllCrawl ==
    /\ pc["all"] = "crawl"
    /\ \E answers \in BOOLEAN :
          /\ grp.cancelled => ~answers
          /\ pc' = [pc EXCEPT !["all"] = IF answers THEN "store" ELSE "Pause"]
    /\ UNCHANGED <<now, flags, repo_indexing, repos, repo_tags, call, repoToReindex, grp>>
    /\ LoopFrame

\* idb.StoreRepos(ctx, allRepos) with the repos the forge listed (ctx is not
\* the context of the group), then the wait for the next check. Nothing is
\* written to repo_indexing.
AllStore ==
    /\ pc["all"] = "store"
    /\ \E allRepos \in RepoLists : StoreRepos(allRepos)
    /\ AfterCall("all", "idle", "idle")
    /\ Waits("all", IF pc'["all"] = "idle" THEN allReposReindexWorkCheckPeriod ELSE 0)
    /\ UNCHANGED repoToReindex
    /\ PollFrame

\* A wait that does not watch grpCtx.Done(): it ends when its time is over.
IdleUntilTimer(t) ==
    /\ pc[t] = "idle"
    /\ pc' = [pc EXCEPT ![t] = "poll"]
    /\ Waits(t, 0)
    /\ UNCHANGED <<now, flags, repo_indexing, repos, repo_tags, call, repoToReindex, grp>>
    /\ PollFrame

\* select on time.After(waitTime) and grpCtx.Done(), of any task: the wait is
\* over.
Idle(t) ==
    /\ pc[t] = "idle"
    /\ \E woken \in BOOLEAN :
          /\ ~woken => grp.cancelled
          /\ pc' = [pc EXCEPT ![t] = IF woken THEN "poll" ELSE "returned"]
    /\ Waits(t, 0)
    /\ UNCHANGED <<now, flags, repo_indexing, repos, repo_tags, call, repoToReindex, grp>>
    /\ PollFrame

\* githubBackoff.Pause() begins: the defaults are applied and bo.cur is read.
\* (For the Backoff of main, Pause never panics.)
PauseBegins(t) ==
    /\ pc[t] = "Pause"
    /\ ~PausePanics(githubBackoff)
    /\ githubBackoff' = WithDefaults(githubBackoff)
    /\ seen' = [seen EXCEPT ![t] = githubBackoff'.cur]
    /\ pc' = [pc EXCEPT ![t] = "Pausing"]
    /\ UNCHANGED <<now, flags, repo_indexing, repos, repo_tags, call, repoToReindex, grp,
                   sessionVars, paused, forge, crawl, waitTime, dbRepoTags>>

\* githubBackoff.Pause() ends: bo.cur is written from the value read, whatever
\* other tasks have written since (the Backoff has no lock), and the task
\* waits for the duration returned.
PauseEnds(t) ==
    /\ pc[t] = "Pausing"
    /\ \E c \in NextCur(seen[t], githubBackoff) :
          githubBackoff' = [githubBackoff EXCEPT !.cur = c]
    /\ seen' = [seen EXCEPT ![t] = 0]
    /\ pc' = [pc EXCEPT ![t] = "backoff"]
    /\ UNCHANGED <<now, flags, repo_indexing, repos, repo_tags, call, repoToReindex, grp,
                   sessionVars, paused, forge, crawl, waitTime, dbRepoTags>>

\* select on time.After(githubBackoff.Pause()) and grpCtx.Done().
Backoff(t) ==
    /\ pc[t] = "backoff"
    /\ \E woken \in BOOLEAN :
          /\ ~woken => grp.cancelled
          /\ pc' = [pc EXCEPT ![t] = IF woken THEN "poll" ELSE "returned"]
    /\ UNCHANGED <<now, flags, repo_indexing, repos, repo_tags, call, repoToReindex, grp>>
    /\ LoopFrame

\* A tag worker asks for a repo to re-index; when there is none it waits the
\* check period and a jitter.
WorkerPoll(w) ==
    /\ pc[w] = "poll"
    /\ NextReindexRepoTagsWork
    /\ grp.cancelled => call'.err
    /\ AfterCall(w, "crawl", "idle")
    /\ IF pc'[w] = "idle"
       THEN \E jitter \in Jitters : Waits(w, repoTagsReindexingWorkCheckPeriod + jitter)
       ELSE Waits(w, 0)
    /\ repoToReindex' = [repoToReindex EXCEPT ![w] = call'.repo]
    /\ PollFrame

\* The same with the shortest jitter, where the length of a wait plays no part.
WorkerPollShortest(w) ==
    /\ WorkerPoll(w)
    /\ waitTime'[w] \in {0, repoTagsReindexingWorkCheckPeriod + 1}

\* A worker that returns the error of the forge, which ends the group.
WorkerCrawlErrorEnds(w) ==
    /\ pc[w] = "crawl"
    /\ \E result \in {"error", "no tags", "tags"} :
          /\ grp.cancelled => result = "error"
          /\ pc' = [pc EXCEPT ![w] = CASE result = "error" -> "returned"
                                       [] result = "no tags" -> "poll"
                                       [] OTHER -> "store"]
          /\ grp' = IF result = "error" THEN Failed(grp, w) ELSE grp
          /\ Crawled(w, IF result = "tags" THEN TagsAt(repoToReindex[w], now) ELSE <<>>)
    /\ UNCHANGED <<now, flags, repo_indexing, repos, repo_tags, call, repoToReindex>>
    /\ SharedFrame /\ UNCHANGED waitTime

\* githubSCM.TagsForRepo(grpCtx, repoToReindex) fails (on to the backoff),
\* finds no tag (continue: back to asking for work, nothing is stored) or
\* finds tags (on to storing them).
WorkerCrawl(w) ==
    /\ pc[w] = "crawl"
    /\ \E result \in {"error", "no tags", "tags"} :
          /\ grp.cancelled => result = "error"
          /\ pc' = [pc EXCEPT ![w] = CASE result = "error" -> "Pause"
                                       [] result = "no tags" -> "poll"
                                       [] OTHER -> "store"]
          /\ Crawled(w, IF result = "tags" THEN TagsAt(repoToReindex[w], now) ELSE <<>>)
    /\ UNCHANGED <<now, flags, repo_indexing, repos, repo_tags, call, repoToReindex, grp>>
    /\ SharedFrame /\ UNCHANGED waitTime

\* A worker that waits the check period after it has stored the tags.
WorkerStoreThenWaits(w) ==
    /\ pc[w] = "store"
    /\ \E failAt \in {"none", "Commit"} : StoreRepoTags(dbRepoTags[w], failAt)
    /\ grp.cancelled => call'.err
    /\ AfterCall(w, "idle", "idle")
    /\ Waits(w, IF pc'[w] = "idle" THEN repoTagsReindexingWorkCheckPeriod + 1 ELSE 0)
    /\ Crawled(w, <<>>)
    /\ UNCHANGED repoToReindex
    /\ SharedFrame

\* A worker that stores the tags only while its lease has not expired, and
\* drops them otherwise.
WorkerStoreUnlessExpired(w) ==
    /\ pc[w] = "store"
    /\ IF PlusSeconds(repos[repoToReindex[w]].indexing_began,
                      Seconds(flags.repoTagsReindexTTL)) < now
       THEN /\ pc' = [pc EXCEPT ![w] = "poll"]
            /\ UNCHANGED <<now, flags, repo_indexing, repos, repo_tags, call, grp>>
       ELSE /\ \E failAt \in {"none", "Commit"} : StoreRepoTags(dbRepoTags[w], failAt)
            /\ grp.cancelled => call'.err
            /\ AfterCall(w, "poll", "poll")
    /\ Crawled(w, <<>>)
    /\ UNCHANGED repoToReindex
    /\ SharedFrame /\ UNCHANGED waitTime

\* idb.StoreRepoTags(grpCtx, dbRepoTags) with the tags found for the repo,
\* then at once the next request for work.
WorkerStore(w) ==
    /\ pc[w] = "store"
    /\ \E failAt \in {"none", "Commit"} : StoreRepoTags(dbRepoTags[w], failAt)
    /\ grp.cancelled => call'.err
    /\ AfterCall(w, "poll", "poll")
    /\ Crawled(w, <<>>)
    /\ UNCHANGED repoToReindex
    /\ SharedFrame /\ UNCHANGED waitTime

\* grp.Wait() returns once every task has returned; its error is logged and
\* the process exits with status 1.
Wait ==
    /\ pc["main"] = "Wait"
    /\ \A t \in Tasks : pc[t] = "returned"
    /\ pc' = [pc EXCEPT !["main"] = IF grp.err # "" THEN "os.Exit(1)" ELSE "shut down"]
    /\ UNCHANGED <<now, flags, repo_indexing, repos, repo_tags, call, repoToReindex, grp>>
    /\ LoopFrame

\* The process starts on a database that holds both repos, with a ttl of one
\* second and a period of two for both queues. The steps of its tasks are
\* followed within one tick of the clock.
InitLoops ==
    /\ now = 0
    /\ FlagsIn({TicksPerSecond}, {2 * TicksPerSecond}, {TicksPerSecond}, {2 * TicksPerSecond})
    /\ repo_indexing = DefaultRow
    /\ repos = [r \in OrgRepoNames |-> DefaultRow]
    /\ repo_tags = {}
    /\ call = NoCall
    /\ NoSessions
    /\ LoopsStart

NextLoops ==
    \/ AllPoll
    \/ AllCrawl
    \/ AllStore
    \/ \E t \in Tasks : Idle(t)
    \/ \E t \in Tasks : PauseBegins(t)
    \/ \E t \in Tasks : PauseEnds(t)
    \/ \E t \in Tasks : Backoff(t)
    \/ \E w \in Workers : WorkerPollShortest(w)
    \/ \E w \in Workers : WorkerCrawl(w)
    \/ \E w \in Workers : WorkerStore(w)
    \/ Wait

SpecLoops == InitLoops /\ [][NextLoops]_vars

\* The steps of one task.
StepOf(t) ==
    \/ t = "all" /\ (AllPoll \/ AllCrawl \/ AllStore)
    \/ t \in Workers /\ (WorkerPollShortest(t) \/ WorkerCrawl(t) \/ WorkerStore(t))
    \/ Idle(t)
    \/ PauseBegins(t)
    \/ PauseEnds(t)
    \/ Backoff(t)

\* Every goroutine is scheduled, every call returns and every timer fires: a
\* task that can take a step eventually takes one.
SpecLoopsFair ==
    /\ SpecLoops
    /\ \A t \in Tasks : WF_vars(StepOf(t))
    /\ WF_vars(Wait)

\* A timer fires: the time of a wait is over before grpCtx is seen done.
TimerFires(t) == pc[t] \in {"idle", "backoff"} /\ pc'[t] = "poll"

\* Every goroutine is scheduled and every call returns, but a wait may last
\* any time: no timer is bound to fire.
SpecLoopsPrompt ==
    /\ SpecLoops
    /\ \A t \in Tasks : WF_vars(StepOf(t) /\ ~TimerFires(t))
    /\ WF_vars(Wait)

\* ------------------------------------------------ workers that find no work

\* The process starts on a migrated database whose repos were not listed yet:
\* no worker finds work.
InitIdle ==
    /\ now = 0
    /\ FlagsIn({TicksPerSecond}, {TicksPerSecond}, {TicksPerSecond}, {TicksPerSecond})
    /\ FreshTables
    /\ NoSessions
    /\ LoopsStart

\* The tag workers ask for work, wait and ask again (or return, when a call
\* failed and the group is cancelled).
NextIdle ==
    \/ \E w \in Workers : WorkerPoll(w)
    \/ \E w \in Workers : Idle(w)

SpecIdle == InitIdle /\ [][NextIdle]_vars

\* ------------------------------------------- tag workers on a forge that answers

\* The forge of this specification: foo/bar has a tag, gaz/urk has none.
ReposWithTags == {"foo/bar"}

\* Both repos were discovered and none was crawled yet; time is unbounded
\* (timestamps are kept relative to now = MaxTime, see Aged).
InitWorkers ==
    /\ now = MaxTime
    /\ FlagsIn({TicksPerSecond}, {TicksPerSecond}, {TicksPerSecond}, {TicksPerSecond})
    /\ repo_indexing = DefaultRow
    /\ repos = [r \in OrgRepoNames |-> DefaultRow]
    /\ repo_tags = {}
    /\ call = NoCall
    /\ NoSessions
    /\ LoopsStart

\* The tag workers, with a database that does not fail and a forge that
\* answers every crawl (after any time) with the tags the repo has.
NextWorkers ==
    \/ Elapse /\ UNCHANGED <<sessionVars, loopVars>>
    \/ \E w \in Workers : WorkerPollShortest(w) /\ ~call'.err
    \/ \E w \in Workers :
          /\ WorkerCrawl(w)
          /\ pc'[w] = IF repoToReindex[w] \in ReposWithTags THEN "store" ELSE "poll"
    \/ \E w \in Workers : WorkerStore(w) /\ ~call'.err
    \/ \E w \in Workers : Idle(w)

\* Time passes and every worker keeps running: its calls return, its crawls
\* are answered, its timers fire.
SpecWorkers ==
    /\ InitWorkers
    /\ [][NextWorkers]_vars
    /\ WF_vars(Elapse /\ UNCHANGED <<sessionVars, loopVars>>)
    /\ \A w \in Workers :
          WF_vars(\/ WorkerPollShortest(w) /\ ~call'.err
                  \/ /\ WorkerCrawl(w)
                     /\ pc'[w] = IF repoToReindex[w] \in ReposWithTags THEN "store" ELSE "poll"
                  \/ WorkerStore(w) /\ ~call'.err
                  \/ Idle(w))

\* ------------------------------------------ two workers and one repo, in time

\* One repo is stored and was never crawled; the ttl and the period of its
\* queue are one second.
InitStale ==
    /\ now = 0
    /\ FlagsIn({TicksPerSecond}, {TicksPerSecond}, {TicksPerSecond}, {TicksPerSecond})
    /\ repo_indexing = DefaultRow
    /\ repos = [r \in {"foo/bar"} |-> DefaultRow]
    /\ repo_tags = {}
    /\ call = NoCall
    /\ NoSessions
    /\ LoopsStart

\* Time passes while the tag workers run, with a database that does not fail
\* and a forge that answers every crawl with the tags of the repo.
NextStale ==
    \/ Tick /\ UNCHANGED <<sessionVars, loopVars>>
    \/ \E w \in Workers : WorkerPollShortest(w) /\ ~call'.err
    \/ \E w \in Workers : WorkerCrawl(w) /\ pc'[w] = "store"
    \/ \E w \in Workers : WorkerStore(w) /\ ~call'.err
    \/ \E w \in Workers : Idle(w)

SpecStale == InitStale /\ [][NextStale]_vars

\* ------------------------------------- the all-repos loop on a forge that fails

\* The process starts on a migrated database; the ttl of the global lease is
\* a second or a fraction of one.
InitRetry ==
    /\ now = 0
    /\ FlagsIn(RepoTagsDurations, {TicksPerSecond}, {TicksPerSecond}, {TicksPerSecond})
    /\ FreshTables
    /\ NoSessions
    /\ LoopsStart

\* Time passes while the all-repos loop runs, with a database that does not
\* fail and a forge that fails every crawl; every wait ends at any time.
NextRetry ==
    \/ Tick /\ UNCHANGED <<sessionVars, loopVars>>
    \/ AllPoll /\ ~call'.err
    \/ AllCrawl /\ pc'["all"] = "Pause"
    \/ PauseBegins("all")
    \/ PauseEnds("all")
    \/ Backoff("all")
    \/ Idle("all")

SpecRetry == InitRetry /\ [][NextRetry]_vars

\* ------------------------------------------------------- the forge client

\* --githubHostName: the forge a GithubSCM is constructed for.
GithubHostNames == {"github.com", "github.mycompany.net"}

\* first: 100 of both queries: the items of a page (100 in the program).
PageSize == 2

\* Strings that the program splits or joins at "/" are sequences of their
\* elements: "foo/bar" is <<"foo", "bar">>, "https://H/foo/bar" is
\* <<"https://", H, "foo", "bar">>.

\* The time.Time zero value (at: seconds since it; loc: its location).
ZeroTime == [at |-> 0, loc |-> "UTC"]

IsZero(t) == t.at = 0

\* t.UTC(): the same instant, shown in UTC.
UTC(t) == [t EXCEPT !.loc = "UTC"]

\* The answers of the raw endpoint to GET /raw/org/name/tag/go.mod: the
\* request fails (no answer), or it has a status code and a body.
RawFails == [failed |-> TRUE, StatusCode |-> 0, Body |-> ""]

RawStatus(code) == [failed |-> FALSE, StatusCode |-> code, Body |-> ""]

RawFile(body) == [failed |-> FALSE, StatusCode |-> 200, Body |-> body]

\* modfile.Parse on the go.mod texts of the model: the module path declared
\* (<<>>: no module directive, file.Module is nil), or an error.
Parse(body) ==
    CASE body = "module example.com/foo" ->
             [err |-> FALSE, Module |-> <<"example.com", "foo">>]
      [] body = "module foo/bar" -> [err |-> FALSE, Module |-> <<"foo", "bar">>]
      [] body = "go 1.22" -> [err |-> FALSE, Module |-> <<>>]
      [] OTHER -> [err |-> TRUE, Module |-> <<>>]

\* module.CheckPath returns an error: the first element of a module path must
\* have a dot.
CheckPathFails(path) == path[1] \notin {"example.com", "github.com", "github.mycompany.net"}

\* A newRepo that takes a name of any number of parts.
newRepoAnyParts(hostname, orgRepoName) ==
    [err |-> FALSE, host |-> hostname, org |-> orgRepoName[1],
     name |-> orgRepoName[Len(orgRepoName)]]

\* newRepo(hostname, orgRepoName): an error unless the name has two parts.
newRepo(hostname, orgRepoName) ==
    IF Len(orgRepoName) # 2
    THEN [err |-> TRUE, host |-> "", org |-> "", name |-> ""]
    ELSE [err |-> FALSE, host |-> hostname, org |-> orgRepoName[1], name |-> orgRepoName[2]]

\* A module path that names github.com whatever the forge is.
asModulePathGithubCom(r) == <<"github.com", r.org, r.name>>

\* repo.asModulePath(): host/org/name.
asModulePath(r) == <<r.host, r.org, r.name>>

\* scm.modulePathFromGoMod, given the answer of the raw endpoint: the module
\* path, whether a go.mod with a module directive was found, and an error.
modulePathFromGoMod(resp) ==
    IF resp.failed THEN [path |-> <<>>, found |-> FALSE, err |-> TRUE]
    ELSE IF resp.StatusCode = 404 THEN [path |-> <<>>, found |-> FALSE, err |-> FALSE]
    ELSE IF resp.StatusCode # 200 THEN [path |-> <<>>, found |-> FALSE, err |-> TRUE]
    ELSE LET file == Parse(resp.Body)
         IN  IF file.err THEN [path |-> <<>>, found |-> FALSE, err |-> TRUE]
             ELSE IF file.Module # <<>>
                  THEN IF CheckPathFails(file.Module)
                       THEN [path |-> <<>>, found |-> TRUE, err |-> TRUE]
                       ELSE [path |-> file.Module, found |-> TRUE, err |-> FALSE]
             ELSE [path |-> <<>>, found |-> FALSE, err |-> FALSE]

\* A tag date that prefers the tagger date to the commit date.
TagDateTaggerFirst(e) ==
    IF ~IsZero(e.TaggerDate) THEN UTC(e.TaggerDate)
    ELSE IF ~IsZero(e.CommittedDate) THEN UTC(e.CommittedDate)
    ELSE ZeroTime

\* tag.TagDate of an edge: the committed date of a lightweight tag, or else the
\* tagger date of an annotated tag, or else the zero value.
TagDate(e) ==
    IF ~IsZero(e.CommittedDate) THEN UTC(e.CommittedDate)
    ELSE IF ~IsZero(e.TaggerDate) THEN UTC(e.TaggerDate)
    ELSE ZeroTime

\* The tag is left out of the results: its go.mod was found and is invalid.
Skipped(e) ==
    LET m == modulePathFromGoMod(e.goMod) IN m.err /\ m.found

\* The RepoTag appended for an edge that is not skipped.
RepoTagOf(e, repo) ==
    LET m == modulePathFromGoMod(e.goMod)
    IN  [Tag |-> e.Name, TagDate |-> TagDate(e),
         ModulePath |-> IF m.found THEN m.path ELSE asModulePath(repo)]

\* The body of the loop over the edges of one page.
PageTags(edges, repo) ==
    LET kept == SelectSeq(edges, LAMBDA e : ~Skipped(e))
    IN  [i \in 1..Len(kept) |-> RepoTagOf(kept[i], repo)]

\* strings.TrimPrefix(url, "https://" + githubHostName + "/").
CorpName(url, githubHostName) ==
    IF Len(url) >= 2 /\ url[1] = "https://" /\ url[2] = githubHostName
    THEN SubSeq(url, 3, Len(url))
    ELSE url

\* A GoRepos whose cursor stays nil: every request asks for the first page.
NextCursorStuck(page) == 0

\* variables["tagsCursor"] = githubv4.NewString(PageInfo.EndCursor)
NextCursor(page) == page.EndCursor

\* What the forge answers to a query with cursor tagsCursor: the next PageSize
\* items of the listing, the cursor after them, and whether more follow.
ForgePage(listing, tagsCursor) ==
    LET last == IF tagsCursor + PageSize < Len(listing)
                THEN tagsCursor + PageSize ELSE Len(listing)
    IN  [Edges |-> SubSeq(listing, tagsCursor + 1, last),
         EndCursor |-> last,
         HasNextPage |-> last < Len(listing)]

\* A failed query that returns the error with the items of the earlier pages.
QueryFailedKeepsPages(c) ==
    [c EXCEPT !.requests = Append(@, c.tagsCursor), !.returned = TRUE, !.err = TRUE]

\* A query failed: the call returns the error and no results.
QueryFailed(c) ==
    [c EXCEPT !.requests = Append(@, c.tagsCursor), !.results = <<>>,
              !.returned = TRUE, !.err = TRUE]

\* scm.GoRepos(ctx), one turn of its loop at a step: a query with the cursor;
\* an error returns; the repo names of the page are appended; the call returns
\* at the page without a next page, else the cursor moves on.
GoRepos ==
    /\ crawl.op \in {"none", "GoRepos"}
    /\ ~crawl.returned
    /\ \E fails \in BOOLEAN :
          LET page == ForgePage(forge.repos, crawl.tagsCursor)
              names == [i \in 1..Len(page.Edges) |->
                           CorpName(page.Edges[i], crawl.githubHostName)]
          IN  crawl' =
                IF fails THEN QueryFailed([crawl EXCEPT !.op = "GoRepos"])
                ELSE [crawl EXCEPT !.op = "GoRepos",
                                   !.requests = Append(@, crawl.tagsCursor),
                                   !.results = @ \o names,
                                   !.returned = ~page.HasNextPage,
                                   !.tagsCursor = IF page.HasNextPage
                                                  THEN NextCursor(page) ELSE @]
    /\ UNCHANGED <<now, flags, repo_indexing, repos, repo_tags, call, sessionVars,
                   pc, repoToReindex, githubBackoff, seen, grp, paused, forge, waitTime, dbRepoTags>>

\* scm.TagsForRepo(ctx, orgRepoName), one turn of its loop at a step: newRepo
\* (an error returns at once), a query with the cursor (an error returns), and
\* for every edge of the page the tag date and the go.mod of the tag.
TagsForRepo(orgRepoName) ==
    /\ \/ crawl.op = "none"
       \/ crawl.op = "TagsForRepo" /\ crawl.orgRepoName = orgRepoName
    /\ ~crawl.returned
    /\ LET repo == newRepo(crawl.githubHostName, orgRepoName)
           called == [crawl EXCEPT !.op = "TagsForRepo", !.orgRepoName = orgRepoName]
       IN  IF repo.err
           THEN crawl' = [called EXCEPT !.returned = TRUE, !.err = TRUE]
           ELSE \E fails \in BOOLEAN :
                LET page == ForgePage(forge.tags, crawl.tagsCursor)
                IN  crawl' =
                      IF fails THEN QueryFailed(called)
                      ELSE [called EXCEPT
                               !.requests = Append(@, crawl.tagsCursor),
                               !.goMods = @ \o [i \in 1..Len(page.Edges) |->
                                                   page.Edges[i].Name],
                               !.results = @ \o PageTags(page.Edges, repo),
                               !.returned = ~page.HasNextPage,
                               !.tagsCursor = IF page.HasNextPage
                                              THEN NextCursor(page) ELSE @]
    /\ UNCHANGED <<now, flags, repo_indexing, repos, repo_tags, call, sessionVars,
                   pc, repoToReindex, githubBackoff, seen, grp, paused, forge, waitTime, dbRepoTags>>

\* The subsequences of s: some of its items, in the order of s.
SubSeqsOf(s) ==
    {[k \in 1..Cardinality(S) |->
         s[CHOOSE i \in S : Cardinality({j \in S : j < i}) = k - 1]] :
     S \in SUBSET (1..Len(s))}

\* The repo URLs a search may list: repos of either forge.
ForgeURLs ==
    <<<<"https://", "github.com", "foo", "bar">>,
      <<"https://", "github.mycompany.net", "foo", "bar">>,
      <<"https://", "github.com", "gaz", "urk">>,
      <<"https://", "github.mycompany.net", "gaz", "urk">>,
      <<"https://", "github.com", "bee", "doh">>,
      <<"https://", "github.mycompany.net", "bee", "doh">>>>

\* The tags a repo may have. Lightweight tags have a committed date, annotated
\* tags a tagger date; go.mod at the tag is a file with a valid module path,
\* is missing, has no module directive, does not parse, declares a path that is
\* not valid, or cannot be had: the forge limits the rate of requests (429) or
\* the request fails.
ForgeTags ==
    LET Edge(name, committed, tagger, goMod) ==
            [Name |-> name,
             CommittedDate |-> [at |-> committed, loc |-> "America/Los_Angeles"],
             TaggerDate |-> [at |-> tagger, loc |-> "America/Los_Angeles"],
             goMod |-> goMod]
    IN  <<Edge("v0.0.1", 1, 0, RawFile("module example.com/foo")),
          Edge("v0.0.2", 0, 2, RawStatus(404)),
          Edge("v0.0.3", 1, 2, RawFile("go 1.22")),
          Edge("v0.0.4", 0, 0, RawStatus(404)),
          Edge("v0.1.0", 1, 0, RawFile("modul example.com/foo")),
          Edge("v0.1.1", 1, 0, RawFile("module foo/bar")),
          Edge("v0.1.2", 1, 0, RawStatus(429)),
          Edge("v0.1.3", 1, 0, RawFails)>>

\* The names TagsForRepo is called with: a repo, and a name that is not one.
CrawlNames == {<<"foo", "bar">>, <<"foo">>}

\* A GithubSCM for either host, and a forge that lists any of the repos or any
\* of the tags.
InitForge ==
    /\ now = 0
    /\ FlagsIn({TicksPerSecond}, {TicksPerSecond}, {TicksPerSecond}, {TicksPerSecond})
    /\ FreshTables
    /\ NoSessions
    /\ pc = [t \in Tasks \cup {"main"} |-> IF t = "main" THEN "Wait" ELSE "poll"]
    /\ repoToReindex = [w \in Workers |-> ""]
    /\ githubBackoff = [Initial |-> GithubInitial, Multiplier |-> GithubMultiplier,
                        Max |-> GithubMax, cur |-> 0]
    /\ seen = [t \in Tasks |-> 0]
    /\ grp = [err |-> "", cancelled |-> FALSE]
    /\ paused = NoPause
    /\ \/ forge \in [repos : SubSeqsOf(ForgeURLs), tags : {<<>>}]
       \/ forge \in [repos : {<<>>}, tags : SubSeqsOf(ForgeTags)]
    /\ \E h \in GithubHostNames : crawl = [NoCrawl EXCEPT !.githubHostName = h]
    /\ waitTime = [t \in Tasks |-> 0]
    /\ dbRepoTags = [w \in Workers |-> <<>>]

NextForge ==
    \/ GoRepos
    \/ \E orgRepoName \in CrawlNames : TagsForRepo(orgRepoName)

SpecForge == InitForge /\ [][NextForge]_vars

\* ------------------------------------- repos whose id is not org/name

\* The ids GoRepos stores of repos whose URL is not at --githubHostName: the
\* prefix is not trimmed and the id is the URL.
URLNames == {"https://github.com/foo/bar", "https://github.com/gaz/urk"}

\* strings.Split(orgRepoName, "/"), of the ids of the model.
Split(orgRepoName) ==
    CASE orgRepoName = "foo/bar" -> <<"foo", "bar">>
      [] orgRepoName = "gaz/urk" -> <<"gaz", "urk">>
      [] orgRepoName = "https://github.com/foo/bar" ->
            <<"https:", "", "github.com", "foo", "bar">>
      [] orgRepoName = "https://github.com/gaz/urk" ->
            <<"https:", "", "github.com", "gaz", "urk">>

\* The database holds two repos stored by their URL; none was crawled yet.
InitURLNames ==
    /\ now = MaxTime
    /\ FlagsIn({TicksPerSecond}, {TicksPerSecond}, {TicksPerSecond}, {TicksPerSecond})
    /\ repo_indexing = DefaultRow
    /\ repos = [r \in URLNames |-> DefaultRow]
    /\ repo_tags = {}
    /\ call = NoCall
    /\ NoSessions
    /\ LoopsStart

\* githubSCM.TagsForRepo of the repo the worker holds: the error of newRepo,
\* or the tags of the repo.
WorkerCrawlSplit(w) ==
    /\ WorkerCrawl(w)
    /\ pc'[w] = IF newRepo(crawl.githubHostName, Split(repoToReindex[w])).err
                THEN "Pause" ELSE "store"

\* The steps of a tag worker, with a database that does not fail and a forge
\* that answers every query.
WorkerStep(w) ==
    \/ WorkerPollShortest(w) /\ ~call'.err
    \/ WorkerCrawlSplit(w)
    \/ PauseBegins(w)
    \/ PauseEnds(w)
    \/ Backoff(w)
    \/ Idle(w)

NextURLNames ==
    \/ Elapse /\ UNCHANGED <<sessionVars, loopVars>>
    \/ \E w \in Workers : WorkerStep(w)

\* Time passes and every worker keeps running: its calls return, its crawls
\* are answered, its timers fire.
SpecURLNames ==
    /\ InitURLNames
    /\ [][NextURLNames]_vars
    /\ WF_vars(Elapse /\ UNCHANGED <<sessionVars, loopVars>>)
    /\ \A w \in Workers : WF_vars(WorkerStep(w))

\* ----------------------------------------------------------------- the feed

\* defaultNumberOfOutputs: the limit of a request that names none.
defaultNumberOfOutputs == 2000

\* Tags of the feed are created at whole seconds from 0 to MaxFeedSeconds.
MaxFeedSeconds == 3

\* The "since" parameter of a request: absent, not a time, or the RFC3339 text
\* of a whole second.
SinceParams ==
    {[kind |-> "absent", seconds |-> 0], [kind |-> "invalid", seconds |-> 0]}
    \cup {[kind |-> "time", seconds |-> t] : t \in 0..MaxFeedSeconds}

\* The "limit" parameter: absent, not a number, or a number.
LimitParams ==
    {[kind |-> "absent", n |-> 0], [kind |-> "invalid", n |-> 0]}
    \cup {[kind |-> "number", n |-> n] : n \in -1..MaxLimit}

\* var since time.Time, or time.Parse(time.RFC3339, sinceParam): the zero time
\* is before every time of the model, as is tick 0.
SinceOf(sinceParam) ==
    IF sinceParam.kind = "absent" THEN 0 ELSE ParseTimestamp(sinceParam.seconds)

\* limit := defaultNumberOfOutputs, or strconv.ParseInt(limitParam, 10, 64).
LimitOf(limitParam) ==
    IF limitParam.kind = "absent" THEN defaultNumberOfOutputs ELSE limitParam.n

\* json.Marshal(&module{...}) of every repo tag: Path, Version and Timestamp.
Lines(rows) ==
    [i \in 1..Len(rows) |->
        [Path |-> rows[i].module_path, Version |-> rows[i].tag_name,
         Timestamp |-> FormatRFC3339(rows[i].created)]]

\* server.handleIndex: 400 for a parameter that does not parse, else
\* FetchRepoTags (the database rejects a negative LIMIT: 500) and one line for
\* each repo tag it returned.
handleIndex(sinceParam, limitParam) ==
    /\ IF sinceParam.kind = "invalid" \/ limitParam.kind = "invalid"
       THEN fetched' = [NoFetch EXCEPT !.done = TRUE, !.status = 400]
       ELSE LET since == SinceOf(sinceParam)
                limit == LimitOf(limitParam)
            IN  IF limit < 0
                THEN fetched' = [NoFetch EXCEPT !.done = TRUE, !.since = since,
                                                !.limit = limit, !.status = 500]
                ELSE \E q \in FetchResults(repo_tags, since, limit) :
                        fetched' = [done |-> TRUE, since |-> since, limit |-> limit,
                                    rows |-> q, during |-> {}, status |-> 200,
                                    lines |-> Lines(q)]
    /\ UNCHANGED <<now, flags, repo_indexing, repos, repo_tags, call, txs, stored>>

\* The tables of the feed: foo/bar with any of its three tags, each created at
\* a whole second.
FeedTables ==
    LET Row(v, s) == [org_repo_name |-> "foo/bar", tag_name |-> v,
                      module_path |-> "example.com/foo", created |-> ParseTimestamp(s)]
    IN  {T \in SUBSET {Row(v, s) : v \in TagNames, s \in 0..MaxFeedSeconds} :
            \A a, b \in T : a.tag_name = b.tag_name => a = b}

InitFeed ==
    /\ now = MaxTime
    /\ FlagsIn({TicksPerSecond}, {TicksPerSecond}, {TicksPerSecond}, {TicksPerSecond})
    /\ repo_indexing = DefaultRow
    /\ repos = [r \in {"foo/bar"} |-> DefaultRow]
    /\ repo_tags \in FeedTables
    /\ call = NoCall
    /\ NoSessions
    /\ LoopsStart

\* Requests to the handler with any parameters, and calls of FetchRepoTags
\* with any whole second and any limit that is not negative.
NextFeed ==
    \/ \E sinceParam \in SinceParams, limitParam \in LimitParams :
          handleIndex(sinceParam, limitParam) /\ UNCHANGED loopVars
    \/ \E seconds \in 0..MaxFeedSeconds, limit \in 0..MaxLimit :
          FetchRepoTags(ParseTimestamp(seconds), limit) /\ UNCHANGED loopVars

SpecFeed == InitFeed /\ [][NextFeed]_vars

\* ------------------------------------------------------------------ claims

\* "now > ts + d" as the specification writes it, for a duration d in ticks.
Elapsed(ts, d, t) == ts = NegInf \/ t > ts + d

\* The lease predicate of the specification: ttl and period taken as they are.
Eligible(row, ttl, period, t) ==
    /\ Elapsed(row.indexing_began, ttl, t)
    /\ Elapsed(row.indexing_finished, period, t)

\* The same with ttl and period cut to whole seconds.
EligibleWholeSeconds(row, ttl, period, t) ==
    Eligible(row, Seconds(ttl) * TicksPerSecond, Seconds(period) * TicksPerSecond, t)

\* This step is a call of the database operation op that returned no error
\* (and not a step of the clock, which leaves the last call in place).
Returned(op) == ~Tick /\ ~Elapse /\ call'.op = op /\ ~call'.err

\* C1: NextReindexAllReposWork returns true and sets indexing_began of the
\* singleton row to now if and only if now > indexing_began + ttl and
\* now > indexing_finished + period; otherwise it returns false and leaves the
\* row unchanged.
C1_AcquiresIffElapsed ==
    [][Returned("NextReindexAllReposWork") =>
        /\ call'.ok <=> Eligible(repo_indexing, flags.allReposReindexTTL,
                                 flags.allReposReindexPeriod, now)
        /\ call'.ok => repo_indexing' = [repo_indexing EXCEPT !.indexing_began = now]
        /\ ~call'.ok => repo_indexing' = repo_indexing]_vars

\* C1 with ttl and period cut to whole seconds, as the statement compares them.
C1_AcquiresIffElapsedWholeSeconds ==
    [][Returned("NextReindexAllReposWork") =>
        /\ call'.ok <=> EligibleWholeSeconds(repo_indexing, flags.allReposReindexTTL,
                                             flags.allReposReindexPeriod, now)
        /\ call'.ok => repo_indexing' = [repo_indexing EXCEPT !.indexing_began = now]
        /\ ~call'.ok => repo_indexing' = repo_indexing]_vars

\* The repos whose row is eligible under the specification's predicate, and
\* under the predicate with whole seconds.
EligibleRepos ==
    {r \in DOMAIN repos : Eligible(repos[r], flags.repoTagsReindexTTL,
                                   flags.repoTagsReindexPeriod, now)}

EligibleReposWholeSeconds ==
    {r \in DOMAIN repos : EligibleWholeSeconds(repos[r], flags.repoTagsReindexTTL,
                                               flags.repoTagsReindexPeriod, now)}

\* This step is a NextReindexRepoTagsWork call that returned repo r.
Acquired(r) == Returned("NextReindexRepoTagsWork") /\ call'.ok /\ call'.repo = r

\* C2: two successful acquisitions of the same work item are never closer than
\* ttl apart: an acquire attempt at a time <= t + ttl, t the time of the last
\* acquire of the item, does not get the item (so no two calls, however they
\* interleave, both get it within ttl).
C2_AcquisitionsTTLApart ==
    [][/\ \A r \in DOMAIN repos :
             Acquired(r) => Elapsed(repos[r].indexing_began, flags.repoTagsReindexTTL, now)
       /\ (Returned("NextReindexAllReposWork") /\ call'.ok) =>
             Elapsed(repo_indexing.indexing_began, flags.allReposReindexTTL, now)]_vars

\* C2 with ttl cut to whole seconds.
C2_AcquisitionsWholeSecondsApart ==
    [][\A r \in DOMAIN repos :
          Acquired(r) => Elapsed(repos[r].indexing_began,
                                 Seconds(flags.repoTagsReindexTTL) * TicksPerSecond, now)]_vars

\* C3: an eligible item is acquired by the first of two lease attempts made in
\* quick succession (the second within ttl of the first, no finish in between)
\* and not by the second, over a single repo.
C3_QuickSuccession ==
    [][(Returned("NextReindexRepoTagsWork") /\ Cardinality(DOMAIN repos) = 1) =>
        /\ EligibleRepos # {} => call'.ok
        /\ (/\ call.op = "NextReindexRepoTagsWork"
            /\ call.ok
            /\ now <= repos[call.repo].indexing_began + flags.repoTagsReindexTTL)
           => ~call'.ok]_vars

\* C3 with "quick" measured against ttl cut to whole seconds.
C3_QuickSuccessionWholeSeconds ==
    [][(Returned("NextReindexRepoTagsWork") /\ Cardinality(DOMAIN repos) = 1) =>
        /\ EligibleReposWholeSeconds # {} => call'.ok
        /\ (/\ call.op = "NextReindexRepoTagsWork"
            /\ call.ok
            /\ now <= repos[call.repo].indexing_began
                        + Seconds(flags.repoTagsReindexTTL) * TicksPerSecond)
           => ~call'.ok]_vars

\* C4: when rows are eligible, NextReindexRepoTagsWork returns an eligible row
\* whose indexing_finished is the oldest among the eligible rows, and it never
\* returns a row that is not eligible.
C4_OldestEligible ==
    [][Returned("NextReindexRepoTagsWork") =>
        /\ EligibleRepos # {} =>
              /\ call'.ok
              /\ \A q \in EligibleRepos :
                    repos[call'.repo].indexing_finished <= repos[q].indexing_finished
        /\ call'.ok => call'.repo \in EligibleRepos]_vars

\* C4 with the eligible rows taken with whole seconds.
C4_OldestEligibleWholeSeconds ==
    [][Returned("NextReindexRepoTagsWork") =>
        /\ EligibleReposWholeSeconds # {} =>
              /\ call'.ok
              /\ \A q \in EligibleReposWholeSeconds :
                    repos[call'.repo].indexing_finished <= repos[q].indexing_finished
        /\ call'.ok => call'.repo \in EligibleReposWholeSeconds]_vars

\* What C5 says of the tables after a NextReindexRepoTagsWork call.
C5Frame ==
    /\ ~call'.ok => repos' = repos
    /\ call'.ok => /\ call'.repo \in DOMAIN repos
                   /\ repos' = [repos EXCEPT ![call'.repo].indexing_began = now]
    /\ repo_tags' = repo_tags

\* C5: NextReindexRepoTagsWork returns found = false exactly when no row is
\* eligible, and then changes no row; when it returns a repo, that row's
\* indexing_began is set to now and nothing else changes.
C5_NotFoundIffNoneEligible ==
    [][Returned("NextReindexRepoTagsWork") =>
        /\ ~call'.ok <=> EligibleRepos = {}
        /\ C5Frame]_vars

\* C5 with the eligible rows taken with whole seconds.
C5_NotFoundIffNoneEligibleWholeSeconds ==
    [][Returned("NextReindexRepoTagsWork") =>
        /\ ~call'.ok <=> EligibleReposWholeSeconds = {}
        /\ C5Frame]_vars

\* C6: a repo that StoreRepoTags marked finished at time t is not returned by
\* NextReindexRepoTagsWork before t + period.
C6_NotBeforePeriod ==
    [][\A r \in DOMAIN repos :
          Acquired(r) => \/ repos[r].indexing_finished = NegInf
                         \/ now >= repos[r].indexing_finished
                                     + flags.repoTagsReindexPeriod]_vars

\* C6 with period cut to whole seconds.
C6_NotBeforePeriodWholeSeconds ==
    [][\A r \in DOMAIN repos :
          Acquired(r) => \/ repos[r].indexing_finished = NegInf
                         \/ now >= repos[r].indexing_finished
                                     + Seconds(flags.repoTagsReindexPeriod) * TicksPerSecond]_vars

\* The rows of S, as given.
GivenRows(S) ==
    {[org_repo_name |-> S[i].OrgRepoName, tag_name |-> S[i].TagName,
      module_path |-> S[i].ModulePath, created |-> S[i].Created] : i \in 1..Len(S)}

\* The rows of S, each created time cut to the whole second.
GivenRowsWholeSeconds(S) ==
    {[row EXCEPT !.created = (row.created \div TicksPerSecond) * TicksPerSecond] :
        row \in GivenRows(S)}

\* A StoreRepoTags call returned without error in this step.
Stored == Returned("StoreRepoTags") /\ call'.ok

\* C8 as stated: after StoreRepoTags(S) the stored tag rows of every repo that
\* appears in S are exactly the rows of S, and the tags of the other repos are
\* unchanged.
C8_ExactlyGivenRows ==
    [][Stored =>
        LET names == OrgRepoNamesOf(call'.arg)
        IN  /\ TagsOf(repo_tags', names) = GivenRows(call'.arg)
            /\ TagsOf(repo_tags', OrgRepoNames \ names) = TagsOf(repo_tags, OrgRepoNames \ names)]_vars

\* C8, amended: after StoreRepoTags(S) the stored tag rows of every repo that
\* appears in S are exactly the rows of S with created cut to the whole second
\* (a tag stored before and absent from S is deleted), and the tags of the
\* other repos are unchanged.
C8_ExactlyGivenRowsWholeSeconds ==
    [][Stored =>
        LET names == OrgRepoNamesOf(call'.arg)
        IN  /\ TagsOf(repo_tags', names) = GivenRowsWholeSeconds(call'.arg)
            /\ TagsOf(repo_tags', OrgRepoNames \ names) = TagsOf(repo_tags, OrgRepoNames \ names)]_vars

\* {v0.0.2, v0.0.3} was stored for foo/bar, one of them created off the whole
\* second, and only these two are stored for it; gaz/urk has tags.
C8_Witness ==
    /\ call.op = "StoreRepoTags" /\ call.ok
    /\ call.arg = <<[OrgRepoName |-> "foo/bar", TagName |-> "v0.0.2",
                     ModulePath |-> "example.com/foo", Created |-> 1],
                    [OrgRepoName |-> "foo/bar", TagName |-> "v0.0.3",
                     ModulePath |-> "example.com/foo", Created |-> 0]>>
    /\ {row.tag_name : row \in TagsOf(repo_tags, {"foo/bar"})} = {"v0.0.2", "v0.0.3"}
    /\ TagsOf(repo_tags, {"gaz/urk"}) # {}

\* C9: StoreRepoTags(S) called a second time, after it succeeded with the same
\* S, leaves the stored tags as the first call left them.
C9_StoreTwiceIsStoreOnce ==
    [][(/\ call.op = "StoreRepoTags" /\ call.ok
        /\ Stored
        /\ call'.arg = call.arg)
       => repo_tags' = repo_tags]_vars

\* The same two tags were stored twice, the second time later than the first.
C9_Witness ==
    /\ call.op = "StoreRepoTags" /\ call.ok /\ call.again
    /\ Len(call.arg) = 2
    /\ now > 0
    /\ \A r \in OrgRepoNamesOf(call.arg) : repos[r].indexing_finished = now
    /\ TagsOf(repo_tags, OrgRepoNamesOf(call.arg)) # {}

\* C10: a StoreRepoTags call that returns an error has changed neither the tags
\* nor the row of any repo; one that succeeds has deleted the tags not given,
\* stored the tags given and set indexing_finished = now on their repos.
C10_AllOrNothing ==
    [][(~Tick /\ ~Elapse /\ call'.op = "StoreRepoTags") =>
        LET S == call'.arg
            names == OrgRepoNamesOf(S)
            Same(row, i) == /\ row.org_repo_name = S[i].OrgRepoName
                            /\ row.tag_name = S[i].TagName
        IN  /\ call'.err => (repo_tags' = repo_tags /\ repos' = repos)
            /\ ~call'.err =>
                 /\ \A row \in TagsOf(repo_tags', names) : \E i \in 1..Len(S) : Same(row, i)
                 /\ \A i \in 1..Len(S) : \E row \in repo_tags' : Same(row, i)
                 /\ \A r \in DOMAIN repos :
                       repos'[r] = IF r \in names
                                   THEN [repos[r] EXCEPT !.indexing_finished = now]
                                   ELSE repos[r]]_vars

\* A call with storable tags failed (at one of its steps): a tag of its repo
\* that it did not give is still stored, and the repo is not marked finished.
C10_Witness ==
    /\ call.op = "StoreRepoTags" /\ call.err
    /\ Len(call.arg) = 1
    /\ call.arg[1].OrgRepoName \in DOMAIN repos
    /\ repos[call.arg[1].OrgRepoName].indexing_finished = NegInf
    /\ \E row \in repo_tags : /\ row.org_repo_name = call.arg[1].OrgRepoName
                              /\ row.tag_name # call.arg[1].TagName

\* The lease on the row was taken some time ago (and its holder is not going
\* to finish).
Stalled(row) == row.indexing_began # NegInf /\ row.indexing_began < now

\* The row was acquired just now.
AcquiredNow(row) == row.indexing_began = now

RepoStalled(r) == r \in DOMAIN repos /\ Stalled(repos[r])

RepoAcquiredNow(r) == r \in DOMAIN repos /\ AcquiredNow(repos[r])

\* The safety half of C7: once ttl has elapsed since indexing_began (and period
\* since indexing_finished), the global lease is acquired by the next call, and
\* the repo queue hands out work: the repo itself when it is the only row.
C7_AcquirableAfterTTL ==
    [][/\ (/\ Returned("NextReindexAllReposWork")
           /\ Eligible(repo_indexing, flags.allReposReindexTTL,
                       flags.allReposReindexPeriod, now))
          => (call'.ok /\ AcquiredNow(repo_indexing'))
       /\ (Returned("NextReindexRepoTagsWork") /\ EligibleRepos # {})
          => /\ call'.ok
             /\ \A r \in DOMAIN repos : DOMAIN repos = {r} => AcquiredNow(repos'[r])]_vars

\* The global lease, once stalled, is eventually acquired again.
C7_AllReposAcquiredAgain ==
    Stalled(repo_indexing) ~> AcquiredNow(repo_indexing)

PassedOver(r) ==
    /\ r \in DOMAIN repos
    /\ call.op = "NextReindexRepoTagsWork" /\ call.ok /\ call.repo # r
    /\ AcquiredNow(repos[call.repo])
    /\ repos[call.repo].indexing_finished <= repos[r].indexing_finished
    /\ Elapsed(repos[r].indexing_began, flags.repoTagsReindexTTL, now)

Commits(w) ==
    /\ txs[w].stage = "updated"
    /\ txs'[w] = NoTx
    /\ repo_tags' = Committed(repo_tags, txs[w])

\* C11: a FetchRepoTags that runs while StoreRepoTags transactions are open
\* never observes an intermediate state. It returns rows of the table as
\* committed; and the tags of a repo in that table change only in the step in
\* which a StoreRepoTags for that repo commits, from the set before the commit
\* to a set that holds every tag the call was given - never to one where the
\* old tags are deleted and the new ones missing or only partly inserted.
C11_NoIntermediateState ==
    [][/\ fetched' # fetched =>
              fetched'.rows \in FetchResults(repo_tags, fetched'.since, fetched'.limit)
       /\ \A r \in OrgRepoNames :
              TagsOf(repo_tags', {r}) # TagsOf(repo_tags, {r}) =>
                  \E w \in Sessions :
                      /\ Commits(w)
                      /\ r \in OrgRepoNamesOf(txs[w].repoTags)
                      /\ GivenRowsWholeSeconds(txs[w].repoTags) \subseteq repo_tags']_vars

\* A FetchRepoTags ran while a transaction had deleted the tag of foo/bar and
\* inserted two others, not yet committed, and it returned the deleted tag.
C11_Witness ==
    /\ fetched.done
    /\ \E w \in fetched.during :
          /\ txs[w].stage \in {"inserted", "updated"}
          /\ Cardinality(txs[w].written) = 2
          /\ txs[w].deleted # {}
          /\ \A row \in txs[w].deleted : \E i \in 1..Len(fetched.rows) : fetched.rows[i] = row

\* C12: in every reachable state the stored tag set of a repo is exactly the
\* tags of the most recent StoreRepoTags that committed for it (the most recent
\* successful crawl), never a union or mixture of two crawls.
C12_ExactlyLastCrawl ==
    \A r \in DOMAIN stored : TagsOf(repo_tags, {r}) = stored[r]

\* ---------------------------------------------------------- the loops

\* C13: when the all-repos loop has acquired the global lease and the crawl
\* and StoreRepos succeed, it sets repo_indexing.indexing_finished to now
\* before it idles.
C13_GlobalFinishedRecorded ==
    [][(pc["all"] = "store" /\ pc'["all"] = "idle") =>
          repo_indexing'.indexing_finished = now]_vars

\* C14: when the crawl of a leased repo succeeds with no tag, the worker
\* records the completion: indexing_finished of the repo is set to now.
C14_EmptyCrawlRecorded ==
    [][\A w \in Workers :
          (pc[w] = "crawl" /\ pc'[w] = "poll") =>
              repos'[repoToReindex[w]].indexing_finished = now]_vars

\* C17: every task has a Backoff of its own, so no two tasks are ever inside
\* Pause of the same Backoff at once (all Pause calls of the model are calls
\* on githubBackoff).
C17_NoTwoTasksInPause ==
    Cardinality({t \in Tasks : pc[t] = "Pausing"}) <= 1

\* C19: the current delay of the Backoff of the loops is never reset and never
\* decreases.
C19_CurNeverDecreases ==
    [][githubBackoff'.cur >= githubBackoff.cur]_vars

\* Every task has returned and main has left through os.Exit(1).
ProcessExited == pc["main"] = "os.Exit(1)" /\ \A t \in Tasks : pc[t] = "returned"

\* C20: an error of NextReindexAllReposWork, NextReindexRepoTagsWork,
\* StoreRepos or StoreRepoTags is never taken for "no work" and never retried:
\* the task that made the call returns, which cancels the context of the
\* group; and once that context is cancelled every task returns and the
\* process exits.
C20_ErrorEndsProcess ==
    /\ [][\A t \in Tasks :
             (pc[t] \in {"poll", "store"} /\ pc'[t] # pc[t] /\ call'.err) =>
                 pc'[t] = "returned" /\ grp'.cancelled /\ grp'.err # ""]_vars
    /\ (grp.cancelled ~> ProcessExited)

\* StoreRepoTags of worker w1 failed, which was the first error of the group,
\* and all tasks have returned and the process has exited.
C20_Witness ==
    /\ ProcessExited
    /\ grp.err = "w1"
    /\ call.op = "StoreRepoTags" /\ call.err

\* --------------------------------------------------------- the Backoff

\* L_k of the claim as a fraction num / den: L_1 = Initial and
\* L_(k+1) = min(L_k * Multiplier, Max), with the defaults applied.
RECURSIVE ClaimedLimit(_, _)
ClaimedLimit(bo, k) ==
    IF k = 1 THEN [num |-> bo.Initial, den |-> 1]
    ELSE LET prev == ClaimedLimit(bo, k - 1)
             num == prev.num * bo.Multiplier
             den == prev.den * 2
         IN  IF num <= bo.Max * den THEN [num |-> num, den |-> den]
             ELSE [num |-> bo.Max, den |-> 1]

\* The k-th Pause was called in this step.
Paused == paused'.k = paused.k + 1

\* The k-th Pause returned d with 1 <= d <= L_k, and d <= Max.
WithinLimit ==
    LET L == ClaimedLimit(githubBackoff', paused'.k)
    IN  /\ ~paused'.panicked
        /\ 1 <= paused'.d
        /\ paused'.d * L.den <= L.num
        /\ paused'.d <= githubBackoff'.Max

\* C18: for every Backoff configuration the k-th call of Pause returns a
\* duration d with 1 <= d <= L_k, where L_1 = Initial and
\* L_(k+1) = min(L_k * Multiplier, Max) (after the defaults); hence no wait
\* returned exceeds Max.
C18_WithinLimit == [][Paused => WithinLimit]_vars

\* The same for the configurations with 0 <= Initial <= Max (after the
\* defaults) and a Multiplier whose products stay within the integer range.
C18_WithinLimitWhenInitialBelowMax ==
    [][(/\ Paused
        /\ 0 < githubBackoff'.Initial
        /\ githubBackoff'.Initial <= githubBackoff'.Max
        /\ (githubBackoff'.Max * githubBackoff'.Multiplier) \div 2 <= MaxInt) => WithinLimit]_vars

\* ----------------------------------------------------------- StoreRepos

RepoEligible(r) ==
    /\ r \in DOMAIN repos
    /\ Eligible(repos[r], flags.repoTagsReindexTTL, flags.repoTagsReindexPeriod, now)

\* C15: with workers that poll fairly and a forge that answers, every repo
\* that is eligible is eventually leased, whatever the repos are: with tags,
\* without tags, newly discovered.
C15_EveryEligibleRepoLeased ==
    \A r \in OrgRepoNames : RepoEligible(r) ~> RepoAcquiredNow(r)

\* ------------------------------------------------------- the forge client

\* The listing the call of crawl pages through.
CrawlListing == IF crawl.op = "GoRepos" THEN forge.repos ELSE forge.tags

\* The tags of the listing that are not skipped, in the order of the listing.
KeptTagNames ==
    LET kept == SelectSeq(forge.tags, LAMBDA e : ~Skipped(e))
    IN  [i \in 1..Len(kept) |-> kept[i].Name]

\* C23: GoRepos and TagsForRepo follow the continuation cursor page by page:
\* the first request has no cursor, each further request has the end cursor of
\* the page before it, and that page said HasNextPage; a call that returns
\* without error has stopped at the first page with HasNextPage false; and its
\* results are the items of all pages, in page order, each once (the repo
\* names of GoRepos; the tags of TagsForRepo that are not skipped).
C23_FollowsCursor ==
    LET requests == crawl.requests
        Page(i) == ForgePage(CrawlListing, requests[i])
    IN  /\ \A i \in 1..Len(requests) :
              IF i = 1 THEN requests[i] = 0
              ELSE Page(i - 1).HasNextPage /\ requests[i] = Page(i - 1).EndCursor
        /\ (crawl.returned /\ ~crawl.err) =>
              /\ Len(requests) > 0
              /\ ~Page(Len(requests)).HasNextPage
              /\ Len(crawl.results) <= Len(CrawlListing)
              /\ crawl.op = "GoRepos" =>
                    crawl.results = [i \in 1..Len(forge.repos) |->
                                        CorpName(forge.repos[i], crawl.githubHostName)]
              /\ crawl.op = "TagsForRepo" =>
                    [i \in 1..Len(crawl.results) |-> crawl.results[i].Tag] = KeptTagNames

\* GoRepos has returned the repos of a listing of two full pages: two
\* requests, and twice PageSize results.
C23_Witness ==
    /\ crawl.op = "GoRepos" /\ crawl.returned /\ ~crawl.err
    /\ Len(crawl.requests) = 2
    /\ Len(crawl.results) = 2 * PageSize

\* The edge of the listing a returned tag comes from (tag names are unique in
\* a listing).
EdgeOf(rt) == CHOOSE e \in {forge.tags[i] : i \in 1..Len(forge.tags)} : e.Name = rt.Tag

\* The tags TagsForRepo has in its results.
ReturnedTags ==
    IF crawl.op = "TagsForRepo"
    THEN {crawl.results[i] : i \in 1..Len(crawl.results)}
    ELSE {}

\* C24: for every tag returned by the tag listing the effective date is the
\* commit date when that is non-zero, otherwise the tagger date when that is
\* non-zero, otherwise it is left unset (the zero value).
C24_TagDateResolution ==
    \A rt \in ReturnedTags :
        LET e == EdgeOf(rt)
        IN  IF e.CommittedDate.at # 0 THEN rt.TagDate.at = e.CommittedDate.at
            ELSE IF e.TaggerDate.at # 0 THEN rt.TagDate.at = e.TaggerDate.at
            ELSE rt.TagDate = ZeroTime

\* TagsForRepo has returned a tag with only a commit date, a tag with only a
\* tagger date, a tag with both and a tag with neither.
C24_Witness ==
    /\ crawl.returned /\ ~crawl.err
    /\ \E a, b, c, d \in ReturnedTags :
          /\ ~IsZero(EdgeOf(a).CommittedDate) /\ IsZero(EdgeOf(a).TaggerDate)
          /\ IsZero(EdgeOf(b).CommittedDate) /\ ~IsZero(EdgeOf(b).TaggerDate)
          /\ ~IsZero(EdgeOf(c).CommittedDate) /\ ~IsZero(EdgeOf(c).TaggerDate)
          /\ IsZero(EdgeOf(d).CommittedDate) /\ IsZero(EdgeOf(d).TaggerDate)
          /\ IsZero(d.TagDate)

\* The raw endpoint has answered with a go.mod file for the tag.
GoModPresent(e) == ~e.goMod.failed /\ e.goMod.StatusCode = 200

\* go.mod of the tag exists and declares a valid module path.
DeclaresValidPath(e) ==
    /\ GoModPresent(e)
    /\ ~Parse(e.goMod.Body).err
    /\ Parse(e.goMod.Body).Module # <<>>
    /\ ~CheckPathFails(Parse(e.goMod.Body).Module)

\* C25: for every tag of a repo org/name on the forge host H: when go.mod at
\* the tag exists and declares a valid module path P, the module path of the
\* tag is P whatever H is; when the file does not exist (404), it is
\* H/org/name.
C25_ModulePathResolution ==
    \A rt \in ReturnedTags :
        LET e == EdgeOf(rt)
        IN  /\ DeclaresValidPath(e) => rt.ModulePath = Parse(e.goMod.Body).Module
            /\ (~e.goMod.failed /\ e.goMod.StatusCode = 404) =>
                  rt.ModulePath = <<crawl.githubHostName, crawl.orgRepoName[1],
                                    crawl.orgRepoName[2]>>

\* On github.mycompany.net TagsForRepo(foo/bar) has returned a tag with the
\* module path its go.mod declares and a tag without go.mod, which has the
\* path github.mycompany.net/foo/bar.
C25_Witness ==
    /\ crawl.returned /\ ~crawl.err
    /\ crawl.githubHostName = "github.mycompany.net"
    /\ \E a, b \in ReturnedTags :
          /\ DeclaresValidPath(EdgeOf(a)) /\ a.ModulePath = <<"example.com", "foo">>
          /\ EdgeOf(b).goMod.StatusCode = 404
          /\ b.ModulePath = <<"github.mycompany.net", "foo", "bar">>

\* The edges of the pages TagsForRepo has gone through.
CrawledEdges ==
    IF crawl.op = "TagsForRepo"
    THEN {e \in {forge.tags[i] : i \in 1..Len(forge.tags)} :
             \E k \in 1..Len(crawl.goMods) : crawl.goMods[k] = e.Name}
    ELSE {}

\* go.mod of the tag is present and fails to parse or declares an invalid path.
GoModInvalid(e) == GoModPresent(e) /\ ~DeclaresValidPath(e) /\
                   (Parse(e.goMod.Body).err \/ Parse(e.goMod.Body).Module # <<>>)

\* C26: a tag whose go.mod is present but fails to parse, or declares an
\* invalid module path, is excluded from the result of TagsForRepo (and so
\* never given the fallback path H/org/name); the crawl is not aborted by it,
\* and the other tags of the pages are returned.
C26_InvalidGoModExcluded ==
    (crawl.op = "TagsForRepo" /\ ~crawl.err) =>
        \A e \in CrawledEdges :
            IF GoModInvalid(e)
            THEN \A rt \in ReturnedTags : rt.Tag # e.Name
            ELSE \E rt \in ReturnedTags : rt.Tag = e.Name

\* The go.mod request of the tag failed: no answer, or an answer that is
\* neither the file nor "not found" (the forge limits the rate: 429).
GoModFetchFailed(e) == e.goMod.failed \/ e.goMod.StatusCode \notin {200, 404}

\* No item of the sequence comes twice.
NoRepeats(q) == \A i, j \in 1..Len(q) : i # j => q[i] # q[j]

\* C27: a rate-limit or transient failure of any call of the forge client
\* (repository search, tag listing, go.mod fetch) makes the operation return an
\* error: it gives no result for the failed call in place of the error (no
\* default), and it makes no call a second time.
C27_FailureReturnsError ==
    /\ NoRepeats(crawl.requests)
    /\ NoRepeats(crawl.goMods)
    /\ crawl.err => (crawl.returned /\ crawl.results = <<>>)
    /\ (crawl.returned /\ \E e \in CrawledEdges : GoModFetchFailed(e)) => crawl.err

\* ------------------------------------------------- errors of the forge

\* The step leaves the tables and the group as they are.
NothingStored ==
    /\ repo_indexing' = repo_indexing
    /\ repos' = repos
    /\ repo_tags' = repo_tags
    /\ grp' = grp

\* C21: an error from the forge during the repository listing or a repo's tag
\* listing never terminates a task: the task stores nothing from the failed
\* crawl, changes no indexing_finished, waits one Backoff pause (Pause, then
\* the wait) and goes back to the lease attempt, unless the group is cancelled
\* during the wait; a task returns only on cancellation or on an error of the
\* store.
C21_ForgeErrorBacksOff ==
    /\ [][\A t \in Tasks :
             /\ (pc[t] = "crawl" /\ pc'[t] \notin {"crawl", "store", "poll"}) =>
                   pc'[t] = "Pause" /\ NothingStored
             /\ (pc[t] = "Pause" /\ pc'[t] # "Pause") =>
                   pc'[t] = "Pausing" /\ NothingStored
             /\ (pc[t] = "Pausing" /\ pc'[t] # "Pausing") =>
                   pc'[t] = "backoff" /\ NothingStored
             /\ (pc[t] = "backoff" /\ pc'[t] # "backoff") =>
                   /\ pc'[t] = "poll" \/ (pc'[t] = "returned" /\ grp.cancelled)
                   /\ NothingStored
             /\ (pc[t] # "returned" /\ pc'[t] = "returned") =>
                   grp.cancelled \/ (pc[t] \in {"poll", "store"} /\ call'.err)]_vars
    /\ \A t \in Tasks : (pc[t] = "Pause") ~> (pc[t] \in {"poll", "returned"})

\* Worker w1 alone has leased a repo, its crawl failed, it has paused once and
\* is back at the lease attempt; nothing was stored, the repo is not marked
\* finished, and no task has returned.
C21_Witness ==
    /\ pc["w1"] = "poll" /\ pc["w2"] = "poll" /\ pc["all"] = "poll"
    /\ repoToReindex["w1"] \in DOMAIN repos
    /\ repoToReindex["w2"] = ""
    /\ repos[repoToReindex["w1"]] = [indexing_began |-> now, indexing_finished |-> NegInf]
    /\ githubBackoff.cur = (GithubInitial * GithubMultiplier) \div 2
    /\ repo_tags = {}
    /\ repo_indexing = DefaultRow
    /\ grp = [err |-> "", cancelled |-> FALSE]

\* C22: once the shared cancellation signal is raised, every loop (the
\* all-repos loop and each tag worker) eventually returns, whatever it is
\* doing at that moment - idle wait, backoff wait, lease attempt, crawl or
\* store - and although no timer is bound to fire: no wait outlasts the
\* cancellation.
C22_CancellationEndsEveryLoop ==
    \A t \in Tasks : grp.cancelled ~> (pc[t] = "returned")

\* The all-repos loop has returned an error, which cancelled the group, while
\* worker w1 waits in its backoff and worker w2 in its idle wait.
C22_Witness ==
    /\ grp.cancelled /\ grp.err = "all"
    /\ pc["all"] = "returned"
    /\ pc["w1"] = "backoff"
    /\ pc["w2"] = "idle"

\* ----------------------------------------------------------------- the feed

\* A call of FetchRepoTags returns in this step (made directly, or by the
\* handler, which then answers 200).
Fetched == fetched' # fetched /\ fetched'.status \in {0, 200}

\* The stored tags with created >= since.
Qualifying(since) == {row \in repo_tags : row.created >= since}

\* C28: FetchRepoTags(since, limit) returns exactly the stored tags with
\* created >= since, ordered by created descending, cut to the first limit
\* tags of that order: every tag returned qualifies and comes once, no tag is
\* newer than the tag before it, min(limit, number of qualifying tags) tags are
\* returned and no qualifying tag left out is newer than one returned.
C28_SinceDescendingLimit ==
    [][Fetched =>
        LET rows == fetched'.rows
            match == Qualifying(fetched'.since)
            returned == {rows[i] : i \in 1..Len(rows)}
        IN  /\ returned \subseteq match
            /\ Cardinality(returned) = Len(rows)
            /\ Len(rows) = IF fetched'.limit < Cardinality(match)
                           THEN fetched'.limit ELSE Cardinality(match)
            /\ \A i \in 1..(Len(rows) - 1) : rows[i].created >= rows[i + 1].created
            /\ \A out \in match \ returned, r \in returned : out.created <= r.created]_vars

\* FetchRepoTags(since, 1) has returned the newer of two qualifying tags, over
\* a table with a third tag that is older than since.
C28_Witness ==
    /\ fetched.done /\ fetched.status = 0
    /\ fetched.limit = 1 /\ Len(fetched.rows) = 1
    /\ \E older, newer, newest \in repo_tags :
          /\ older.created < fetched.since
          /\ fetched.since <= newer.created /\ newer.created < newest.created
          /\ fetched.rows = <<newest>>

\* The timestamps of the stored tags.
Timestamps == {row.created : row \in repo_tags}

\* The handler answers in this step a request with limit = 1 and since = t_mid
\* over stored tags with three timestamps t1 < t_mid < t2 < t3.
FeedScenario ==
    /\ fetched' # fetched
    /\ fetched'.status = 200
    /\ fetched'.limit = 1
    /\ Cardinality(Timestamps) = 3
    /\ Cardinality({t \in Timestamps : t < fetched'.since}) = 1
    /\ fetched'.since \notin Timestamps

\* The request is answered with exactly one line, of a tag created at t.
OneLineOf(t) ==
    /\ Len(fetched'.lines) = 1
    /\ \E row \in repo_tags :
          /\ row.created = t
          /\ fetched'.lines[1] = [Path |-> row.module_path, Version |-> row.tag_name,
                                  Timestamp |-> FormatRFC3339(t)]

C30_OnlyAcquireChangesGlobalLease ==
    [][/\ repo_indexing' \in [indexing_began : TimestampsUpTo(MaxTime),
                              indexing_finished : TimestampsUpTo(MaxTime)]
       /\ repo_indexing' # repo_indexing =>
             /\ pc["all"] = "poll"
             /\ call'.op = "NextReindexAllReposWork" /\ call'.ok
             /\ repo_indexing' = [repo_indexing EXCEPT !.indexing_began = now]
       /\ call'.op \in {"NextReindexRepoTagsWork", "StoreRepos", "StoreRepoTags"}
             => repo_indexing' = repo_indexing]_vars

\* The global lease was acquired, the repos listed were stored, a worker
\* acquired a repo and stored its tags: the row still holds the acquisition
\* and nothing else.
C30_Witness ==
    /\ repo_indexing = [indexing_began |-> now, indexing_finished |-> NegInf]
    /\ pc["all"] = "idle"
    /\ call.op = "StoreRepoTags" /\ call.ok
    /\ repo_tags # {}
    /\ \E r \in DOMAIN repos : repos[r].indexing_finished = now

\* ------------------------------------------------- the waits of the loops

\* The task t leaves the place a for the place b in this step.
Moves(t, a, b) == pc[t] = a /\ pc'[t] = b

\* The task t leaves the place a in this step.
Leaves(t, a) == pc[t] = a /\ pc'[t] # a

\* The task t returns because grpCtx is done.
Cancelled(t) == grp.cancelled /\ pc'[t] = "returned"

\* C31: in the Reindex-All-Repos loop a lease attempt that does not acquire
\* is followed by a wait of the fixed check period and then a new lease
\* attempt; an error of the forge in the crawl is followed by one Backoff
\* pause and then directly a new lease attempt, without the wait of the check
\* period; a crawl and store that succeed are followed by a wait of the check
\* period. (A wait that grpCtx ends, and a call that fails, end the loop.)
C31_AllReposLoopWaits ==
    [][/\ Leaves("all", "poll") =>
             \/ call'.err /\ pc'["all"] = "returned"
             \/ call'.ok /\ pc'["all"] = "crawl"
             \/ /\ ~call'.ok /\ ~call'.err
                /\ pc'["all"] = "idle"
                /\ waitTime'["all"] = allReposReindexWorkCheckPeriod
       /\ Leaves("all", "idle") => pc'["all"] = "poll" \/ Cancelled("all")
       /\ Leaves("all", "crawl") => pc'["all"] \in {"store", "Pause"}
       /\ Leaves("all", "Pause") => pc'["all"] = "Pausing"
       /\ Leaves("all", "Pausing") => pc'["all"] = "backoff"
       /\ Leaves("all", "backoff") => pc'["all"] = "poll" \/ Cancelled("all")
       /\ Leaves("all", "store") =>
             \/ call'.err /\ pc'["all"] = "returned"
             \/ /\ call'.ok
                /\ pc'["all"] = "idle"
                /\ waitTime'["all"] = allReposReindexWorkCheckPeriod]_vars

\* The loop acquired the global lease, its crawl failed, it paused once and
\* attempted the lease again (no worker has made a step, so the Pause was its
\* own); that attempt did not acquire and the loop waits the check period.
C31_Witness ==
    /\ pc["all"] = "idle"
    /\ waitTime["all"] = allReposReindexWorkCheckPeriod
    /\ githubBackoff.cur > 0
    /\ repo_indexing.indexing_began = now
    /\ \A w \in Workers : pc[w] = "poll"
    /\ \A r \in DOMAIN repos : repos[r] = DefaultRow

\* C32: after a worker has finished a repository (tags stored, or crawl
\* finished with no tags) its next action is a lease attempt with no wait in
\* between; a worker begins a wait only after a lease attempt that found no
\* work (the wait for work) or after an error of the forge (the Backoff
\* pause).
C32_WorkerWaitsOnlyWithoutWork ==
    [][\A w \in Workers :
          /\ Leaves(w, "store") =>
                \/ call'.err /\ pc'[w] = "returned"
                \/ call'.ok /\ pc'[w] = "poll" /\ waitTime'[w] = 0
          /\ Leaves(w, "crawl") => pc'[w] \in {"poll", "store", "Pause"}
          /\ Moves(w, "crawl", "poll") => waitTime'[w] = 0
          /\ pc'[w] = "idle" /\ pc[w] # "idle" =>
                /\ pc[w] = "poll"
                /\ call'.op = "NextReindexRepoTagsWork" /\ ~call'.ok /\ ~call'.err
          /\ pc'[w] = "Pause" /\ pc[w] # "Pause" => pc[w] = "crawl"
          /\ pc'[w] = "Pausing" /\ pc[w] # "Pausing" => pc[w] = "Pause"
          /\ pc'[w] = "backoff" /\ pc[w] # "backoff" => pc[w] = "Pausing"
          /\ waitTime'[w] # 0 => pc'[w] = "idle"]_vars

\* A worker has stored the tags of its repo and is about to ask for work.
C32_Witness ==
    \E w \in Workers :
       /\ pc[w] = "poll"
       /\ waitTime[w] = 0
       /\ call.op = "StoreRepoTags" /\ call.ok
       /\ repoToReindex[w] \in DOMAIN repos
       /\ repos[repoToReindex[w]].indexing_finished = now
       /\ \E row \in repo_tags : row.org_repo_name = repoToReindex[w]

\* C33: when a worker's lease attempt finds no work the worker waits the
\* check period plus a jitter that is a whole number of seconds from 1 to 60,
\* so every wait for work lies in [check period + 1s, check period + 60s], and
\* then it attempts the lease again (or returns, when grpCtx is done).
C33_IdleWaitJitter ==
    [][\A w \in Workers :
          /\ Leaves(w, "poll") /\ ~call'.ok /\ ~call'.err =>
                /\ pc'[w] = "idle"
                /\ waitTime'[w] - repoTagsReindexingWorkCheckPeriod \in 1..60
          /\ pc'[w] = "idle" =>
                waitTime'[w] - repoTagsReindexingWorkCheckPeriod \in 1..60
          /\ Leaves(w, "idle") => pc'[w] = "poll" \/ Cancelled(w)]_vars

\* One worker waits the shortest time and another one the longest.
C33_Witness ==
    \E w1, w2 \in Workers :
       /\ pc[w1] = "idle" /\ pc[w2] = "idle"
       /\ waitTime[w1] = repoTagsReindexingWorkCheckPeriod + 1
       /\ waitTime[w2] = repoTagsReindexingWorkCheckPeriod + 60

\* ------------------------------------------- the rows of repos and repo_tags

\* (org_repo_name, tag_name) is unique among the rows of the table.
TagKeysUnique(table) ==
    \A a, b \in table :
       (a.org_repo_name = b.org_repo_name /\ a.tag_name = b.tag_name) => a = b

\* C34: in every reachable state the repo id is unique among the rows of
\* repos (the model keeps repos as a function of the id), (repo id, tag name)
\* is unique among the rows of repo_tags, every row of repo_tags belongs to a
\* stored repo, and no step of the indexing path (lease acquire, StoreRepos,
\* StoreRepoTags) removes a row of repos.
C34_RowsUniqueAndKept ==
    /\ TagKeysUnique(repo_tags)
    /\ [][/\ TagKeysUnique(repo_tags')
          /\ \A row \in repo_tags' : row.org_repo_name \in DOMAIN repos'
          /\ DOMAIN repos \subseteq DOMAIN repos']_vars

\* Both repos are stored, one of them is leased, and tags of both were stored,
\* a tag of foo/bar with the later of its two creation times.
C34_Witness ==
    /\ DOMAIN repos = OrgRepoNames
    /\ \E r \in DOMAIN repos : repos[r].indexing_began = now
    /\ call.op = "StoreRepoTags" /\ call.ok
    /\ \E a, b, c \in repo_tags :
          /\ a.org_repo_name = "foo/bar" /\ a.created = ParseTimestamp(1)
          /\ b.org_repo_name = "foo/bar" /\ b.tag_name # a.tag_name
          /\ c.org_repo_name = "gaz/urk"

\* ------------------------------------------------------ stale crawl results

\* C35: StoreRepoTags does not check lease ownership: whenever a worker
\* stores the tags it crawled, whoever holds the lease of the repo by then,
\* the tags of the repo are replaced by the worker's crawl result and
\* indexing_finished is set to now; so a worker whose lease expired and was
\* acquired again by a second worker replaces the result of the second
\* worker's newer crawl with its older one.
C35_StoreIgnoresLease ==
    [][\A w \in Workers :
          Leaves(w, "store") =>
             LET r == repoToReindex[w]
             IN  /\ call'.op = "StoreRepoTags" /\ call'.ok
                 /\ TagsOf(repo_tags', {r}) =
                       {TagRow(dbRepoTags[w][i]) : i \in 1..Len(dbRepoTags[w])}
                 /\ repos'[r].indexing_finished = now]_vars

\* The tag v0.0.2 exists and the worker that acquired the repo last (at the
\* present time) has crawled it and stored both tags; the other worker, which
\* had crawled the repo before the tag existed, has just stored its result:
\* the repo is left with v0.0.1 alone and is marked finished now.
C35_Witness ==
    /\ now >= ParseTimestamp(1)
    /\ repos["foo/bar"].indexing_began = now
    /\ repos["foo/bar"].indexing_finished = now
    /\ call.op = "StoreRepoTags" /\ call.ok
    /\ call.arg = TagsAt("foo/bar", 0)
    /\ {row.tag_name : row \in repo_tags} = {"v0.0.1"}
    /\ \A w \in Workers :
          /\ repoToReindex[w] = "foo/bar"
          /\ pc[w] \in {"poll", "idle"}
          /\ dbRepoTags[w] = <<>>

\* --------------------------------------------- durations in whole seconds

\* The row was acquired before now and its indexing_finished is older than
\* the period (cut to whole seconds).
AcquiredBefore(row, period) ==
    /\ row.indexing_began # NegInf
    /\ row.indexing_began < now
    /\ Elapsed(row.indexing_finished, Seconds(period) * TicksPerSecond, now)

C36_RetryOnlyAfterTTL ==
    [][Leaves("all", "poll") /\ repo_indexing.indexing_began # NegInf =>
          \/ now > repo_indexing.indexing_began + flags.allReposReindexTTL
          \/ /\ pc'["all"] = "idle"
             /\ waitTime'["all"] = allReposReindexWorkCheckPeriod
             /\ repo_indexing' = repo_indexing]_vars

\* C36 with ttl cut to whole seconds.
C36_RetryOnlyAfterTTLWholeSeconds ==
    [][Leaves("all", "poll") /\ repo_indexing.indexing_began # NegInf =>
          \/ now > repo_indexing.indexing_began
                      + Seconds(flags.allReposReindexTTL) * TicksPerSecond
          \/ /\ pc'["all"] = "idle"
             /\ waitTime'["all"] = allReposReindexWorkCheckPeriod
             /\ repo_indexing' = repo_indexing]_vars

\* ---------------------------------------------------- an empty listing

\* C37: StoreRepos called with an empty list returns an error and changes
\* nothing in the store; so a listing of the forge that succeeds and holds no
\* repo makes the Reindex-All-Repos loop return an error, which cancels the
\* context of the whole group.
C37_EmptyListingIsFatal ==
    [][(Leaves("all", "store") /\ call'.arg = <<>>) =>
          /\ call'.op = "StoreRepos" /\ call'.err /\ ~call'.ok
          /\ UNCHANGED <<repo_indexing, repos, repo_tags>>
          /\ pc'["all"] = "returned"
          /\ grp'.cancelled /\ grp'.err # ""]_vars

\* The forge listed no repo: StoreRepos returned an error, the loop returned
\* it as the first error of the group and the context is cancelled.
C37_Witness ==
    /\ call.op = "StoreRepos" /\ call.arg = <<>> /\ call.err
    /\ pc["all"] = "returned"
    /\ grp.err = "all" /\ grp.cancelled

\* ------------------------------------------- a pagination that fails

\* The number of pages a listing has: one page even when it is empty.
PagesOf(listing) ==
    IF Len(listing) = 0 THEN 1 ELSE (Len(listing) + PageSize - 1) \div PageSize

\* C38: when a page query fails in the middle of a pagination, GoRepos and
\* TagsForRepo return an error and no items: the items of the pages fetched
\* before are discarded. So what a call returns without an error was built
\* from every page of the listing, never from the first pages only: a worker
\* has no partial tag set of a repo to pass to StoreRepoTags.
C38_FailedPaginationDiscards ==
    /\ crawl.err => crawl.returned /\ crawl.results = <<>>
    /\ (crawl.returned /\ ~crawl.err /\ crawl.op = "GoRepos") =>
          /\ Len(crawl.requests) = PagesOf(forge.repos)
          /\ Len(crawl.results) = Len(forge.repos)
    /\ (crawl.returned /\ ~crawl.err /\ crawl.op = "TagsForRepo") =>
          /\ Len(crawl.requests) = PagesOf(forge.tags)
          /\ crawl.goMods = [i \in 1..Len(forge.tags) |-> forge.tags[i].Name]

\* The query of the third page of a repo's tags failed: two pages of tags were
\* fetched, their go.mod files read, and the call returned no tag.
C38_Witness ==
    /\ crawl.op = "TagsForRepo" /\ crawl.err /\ crawl.returned
    /\ Len(crawl.requests) = 3
    /\ Len(crawl.goMods) = 2 * PageSize
    /\ crawl.results = <<>>

\* ------------------------------------------- a repo id that is not org/name

\* The id does not split into an org and a name.
Malformed(r) == Len(Split(r)) # 2

\* The crawl of a repo whose id is not org/name fails as a crawl that the
\* forge fails: the worker stores nothing and goes on to githubBackoff.Pause()
\* and the wait it returns, then back to asking for work; the repo is never
\* marked finished and has no tag; it is leased only when its ttl has elapsed.
C39_HandledAsUpstreamError ==
    /\ [](\A r \in DOMAIN repos :
             Malformed(r) => /\ repos[r].indexing_finished = NegInf
                             /\ TagsOf(repo_tags, {r}) = {})
    /\ [][\A w \in Workers :
             (pc[w] = "crawl" /\ pc'[w] # "crawl" /\ Malformed(repoToReindex[w])) =>
                 pc'[w] = "Pause" /\ NothingStored]_vars
    /\ [][\A w \in Workers, r \in DOMAIN repos :
             (Moves(w, "poll", "crawl") /\ repoToReindex'[w] = r) =>
                 /\ Elapsed(repos[r].indexing_began, flags.repoTagsReindexTTL, now)
                 /\ AcquiredNow(repos'[r])]_vars
    /\ [][\A w \in Workers :
             /\ Leaves(w, "Pause") => pc'[w] = "Pausing" /\ githubBackoff'.cur > 0
             /\ Leaves(w, "Pausing") => pc'[w] = "backoff"
             /\ Leaves(w, "backoff") => pc'[w] = "poll"]_vars

====
